---------------------------- MODULE Spec2Model ----------------------------
(***************************************************************************)
(* State-machine model of the CISO simulator engine (src/src/core):        *)
(* the numeric domain types of types.rs, the decision pipeline of          *)
(* decisions.rs and the GameState operations of state.rs.                  *)
(*                                                                         *)
(* Numbers.  Every f64 of the source is modelled as an integer number of   *)
(* hundredths: Fx(n) is the source literal n.0, and 15 is the literal 0.15.*)
(* A product with a decimal factor (x * 0.95) is (x * 95) \div 100, i.e.   *)
(* rounded down to a hundredth.  u32 values are plain integers.            *)
(* Option<T> is a sequence of length 0 (None) or 1 (Some).                 *)
(* Strings that only carry formatted text (titles, descriptions) are       *)
(* reduced to a short tag; wall-clock timestamps are left out.             *)
(***************************************************************************)
EXTENDS Integers, Sequences, FiniteSets, TLC

VARIABLES
    turn,                 \* GameState.turn
    quarter,              \* GameState.quarter
    phase,                \* GameState.phase
    risk,                 \* GameState.risk : RiskLevel
    business,             \* GameState.business : BusinessMetrics
    narrative,            \* GameState.narrative : NarrativeIntegrity
    budget,               \* GameState.budget : Budget
    political_capital,    \* GameState.political_capital : PoliticalCapital
    team,                 \* GameState.team : SecurityTeam
    compliance,           \* GameState.compliance.frameworks
    reputation,           \* GameState.player.reputation
    board,                \* GameState.board
    events,               \* GameState.events
    decisions_made,       \* GameState.decisions_made
    active_incidents,     \* GameState.active_incidents
    resolved_incidents,   \* GameState.resolved_incidents
    quarterly_objectives, \* GameState.quarterly_objectives
    technical_debt,       \* GameState.technical_debt
    threat_level,         \* GameState.threat_landscape.current_threat_level
    last,                 \* the last call: operation, arguments, result
    ops                   \* number of calls made so far (bounds the runs)

gameVars == <<turn, quarter, phase, risk, business, narrative, budget,
              political_capital, team, compliance, reputation, board, events,
              decisions_made, active_incidents, resolved_incidents,
              quarterly_objectives, technical_debt, threat_level>>

vars == <<turn, quarter, phase, risk, business, narrative, budget,
          political_capital, team, compliance, reputation, board, events,
          decisions_made, active_incidents, resolved_incidents,
          quarterly_objectives, technical_debt, threat_level, last, ops>>

-----------------------------------------------------------------------------
(* Bounds of the model.                                                    *)

MaxChoiceOps == 3
MaxRiskOps == 3
MaxNarrativeOps == 3
MaxEndingOps == 4
MaxTurn == 9
MaxMaterializeOps == 1
MaxDepartures == 1
MaxIncidentOps == 3
MaxIncidentTurn == 3
MaxGameTurn == 18
MaxGameOps == 1
MaxReviewTurn == 8
MaxMoraleTurn == 6
MaxMoraleIncidents == 6
MaxCapitalOps == 3
MaxCapitalTurn == 4
MaxPersistenceTurn == 5
MaxOrderTurn == 20
MaxOrderOps == 1
MaxBudgetOps == 4
MaxLoopTurn == 4
MaxReturnTurn == 9
MaxReturnOps == 2
MaxArithTurn == 3
MaxArithOps == 3
MaxDelayTurns == 2

-----------------------------------------------------------------------------
(* Helpers.                                                                *)

Fx(n) == n * 100

None == <<>>

Some(x) == <<x>>

Max2(a, b) == IF a >= b THEN a ELSE b

Min2(a, b) == IF a <= b THEN a ELSE b

MinOfSet(S) == CHOOSE x \in S : \A y \in S : x <= y

RECURSIVE SumOver(_, _)
SumOver(f, S) ==
    IF S = {} THEN 0
    ELSE LET x == CHOOSE y \in S : TRUE
         IN f[x] + SumOver(f, S \ {x})

-----------------------------------------------------------------------------
(* types.rs: risk model.                                                   *)

RiskVector == {"DataExposure", "AccessControl", "Detection", "VendorRisk",
               "InsiderThreat", "SupplyChain", "CloudMisconfiguration",
               "APIAbuse"}

RiskMetric_new ==
    [current_level |-> 0, trend |-> 0, time_to_critical |-> None,
     mitigation_coverage |-> 0, last_incident |-> None]

RiskLevel_new ==
    [vectors |-> [v \in RiskVector |-> RiskMetric_new],
     total_exposure |-> 0, risk_velocity |-> 0, cascade_multiplier |-> Fx(1)]

\* Mutant of apply_decay_metric: the coverage loses 5 points per call.
apply_decay_metric_additive(v, m, t) ==
    LET decays == m.last_incident = None \/ t - m.last_incident[1] > 3
        m1 == IF decays
              THEN [m EXCEPT !.mitigation_coverage = Max2(@ - Fx(5), 0)]
              ELSE m
    IN IF v \in {"CloudMisconfiguration", "APIAbuse"}
       THEN [m1 EXCEPT !.current_level = Min2((@ * 102) \div 100, Fx(100)),
                       !.trend = Fx(2)]
       ELSE m1

\* metric.mitigation_coverage *= 0.95 when no incident in the last 3 turns;
\* CloudMisconfiguration and APIAbuse grow by 2% and get trend 2.0.
apply_decay_metric(v, m, t) ==
    LET decays == m.last_incident = None \/ t - m.last_incident[1] > 3
        m1 == IF decays
              THEN [m EXCEPT !.mitigation_coverage = (@ * 95) \div 100]
              ELSE m
    IN IF v \in {"CloudMisconfiguration", "APIAbuse"}
       THEN [m1 EXCEPT !.current_level = Min2((@ * 102) \div 100, Fx(100)),
                       !.trend = Fx(2)]
       ELSE m1

RiskLevel_apply_decay(r, t) ==
    [r EXCEPT !.vectors = [v \in RiskVector |-> apply_decay_metric(v, r.vectors[v], t)]]

\* Mutant of calculate_cascade_effects: the exposure is summed over the
\* levels the call found, before its two amplifications.
RiskLevel_calculate_cascade_effects_stale_sum(r) ==
    LET access_level == r.vectors["AccessControl"].current_level
        r1 == IF access_level > Fx(60)
              THEN [r EXCEPT !.vectors["DataExposure"].current_level =
                                 Min2((@ * 120) \div 100, Fx(100))]
              ELSE r
        detection_level == r1.vectors["Detection"].mitigation_coverage
        r2 == [r1 EXCEPT !.cascade_multiplier =
                             IF detection_level < Fx(40) THEN 150 ELSE Fx(1)]
        vendor_level == r2.vectors["VendorRisk"].current_level
        r3 == IF vendor_level > Fx(50)
              THEN [r2 EXCEPT !.vectors["SupplyChain"].current_level =
                                  Min2((@ * 115) \div 100, Fx(100))]
              ELSE r2
        term == [v \in RiskVector |->
                    (r.vectors[v].current_level
                       * (Fx(100) - r.vectors[v].mitigation_coverage)) \div Fx(100)]
    IN [r3 EXCEPT !.total_exposure =
                      (SumOver(term, RiskVector) * r3.cascade_multiplier) \div 100]

RiskLevel_calculate_cascade_effects(r) ==
    LET access_level == r.vectors["AccessControl"].current_level
        r1 == IF access_level > Fx(60)
              THEN [r EXCEPT !.vectors["DataExposure"].current_level =
                                 Min2((@ * 120) \div 100, Fx(100))]
              ELSE r
        detection_level == r1.vectors["Detection"].mitigation_coverage
        r2 == [r1 EXCEPT !.cascade_multiplier =
                             IF detection_level < Fx(40) THEN 150 ELSE Fx(1)]
        vendor_level == r2.vectors["VendorRisk"].current_level
        r3 == IF vendor_level > Fx(50)
              THEN [r2 EXCEPT !.vectors["SupplyChain"].current_level =
                                  Min2((@ * 115) \div 100, Fx(100))]
              ELSE r2
        term == [v \in RiskVector |->
                    (r3.vectors[v].current_level
                       * (Fx(100) - r3.vectors[v].mitigation_coverage)) \div Fx(100)]
    IN [r3 EXCEPT !.total_exposure =
                      (SumOver(term, RiskVector) * r3.cascade_multiplier) \div 100]

\* Mutant of apply_delta_metric: the level is not floored at 0.
apply_delta_metric_no_floor(m, change) ==
    [m EXCEPT !.current_level = Min2(@ + change.level_delta, Fx(100)),
              !.mitigation_coverage = Min2(Max2(@ + change.mitigation_delta, 0), Fx(100)),
              !.trend = change.trend_delta]

\* One entry of a RiskDelta applied to the metric of its vector.
apply_delta_metric(m, change) ==
    LET level == Min2(Max2(m.current_level + change.level_delta, 0), Fx(100))
        mitig == Min2(Max2(m.mitigation_coverage + change.mitigation_delta, 0), Fx(100))
        m1 == [m EXCEPT !.current_level = level,
                        !.mitigation_coverage = mitig,
                        !.trend = change.trend_delta]
    IN IF change.level_delta > 0 /\ level > Fx(70)
       THEN LET distance_to_critical == Fx(100) - level
                rate == Max2(change.trend_delta, Fx(1))
            IN [m1 EXCEPT !.time_to_critical = Some(distance_to_critical \div rate)]
       ELSE m1

\* Mutant of apply_delta: the trend of a vector the delta does not name is
\* set back to 0.
RiskLevel_apply_delta_all_trends(r, delta) ==
    [r EXCEPT !.vectors = [v \in RiskVector |->
        IF v \in DOMAIN delta.changes
        THEN apply_delta_metric(r.vectors[v], delta.changes[v])
        ELSE [r.vectors[v] EXCEPT !.trend = 0]]]

\* A RiskDelta is a function from the vectors it names to their RiskChange.
RiskLevel_apply_delta(r, delta) ==
    [r EXCEPT !.vectors = [v \in RiskVector |->
        IF v \in DOMAIN delta.changes
        THEN apply_delta_metric(r.vectors[v], delta.changes[v])
        ELSE r.vectors[v]]]

RiskChange(level, mitigation, trend) ==
    [level_delta |-> level, mitigation_delta |-> mitigation, trend_delta |-> trend]

EmptyMap == [x \in {} |-> 0]

RiskDelta_zero == [changes |-> EmptyMap]

-----------------------------------------------------------------------------
(* types.rs: business metrics.                                             *)

BusinessMetrics_new ==
    [arr_millions |-> Fx(12), roadmap_velocity_percent |-> Fx(100),
     customer_churn_probability |-> Fx(5), board_confidence_percent |-> Fx(70),
     deal_cycle_days |-> Fx(45), security_as_differentiator |-> Fx(30),
     regulatory_compliance_score |-> Fx(40)]

BusinessMetrics_apply_delta(b, d) ==
    [arr_millions |-> Max2(b.arr_millions + d.arr_change, 0),
     roadmap_velocity_percent |-> Max2(b.roadmap_velocity_percent + d.velocity_change, 0),
     customer_churn_probability |->
         Min2(Max2(b.customer_churn_probability + d.churn_change, 0), Fx(100)),
     board_confidence_percent |->
         Min2(Max2(b.board_confidence_percent + d.confidence_change, 0), Fx(100)),
     deal_cycle_days |-> Max2(b.deal_cycle_days + d.deal_cycle_change, Fx(1)),
     security_as_differentiator |->
         Min2(Max2(b.security_as_differentiator + d.differentiator_change, 0), Fx(100)),
     regulatory_compliance_score |->
         Min2(Max2(b.regulatory_compliance_score + d.compliance_change, 0), Fx(100))]

BusinessDelta_zero ==
    [arr_change |-> 0, velocity_change |-> 0, churn_change |-> 0,
     confidence_change |-> 0, deal_cycle_change |-> 0,
     differentiator_change |-> 0, compliance_change |-> 0]

-----------------------------------------------------------------------------
(* types.rs: political capital.                                            *)

PoliticalCapital_new ==
    [total |-> Fx(50), ceo_favor |-> Fx(60), cto_relationship |-> Fx(40),
     cfo_trust |-> Fx(45), earned_this_quarter |-> 0, spent_this_quarter |-> 0]

PoliticalCapital_can_spend(pc, amount) == pc.total >= amount

\* spend(amount, target): [ok, pc]; target is None or Some(role).
PoliticalCapital_spend(pc, amount, target) ==
    IF ~PoliticalCapital_can_spend(pc, amount)
    THEN [ok |-> FALSE, pc |-> pc]
    ELSE LET p1 == [pc EXCEPT !.total = @ - amount,
                              !.spent_this_quarter = @ + amount]
             p2 == IF target = Some("CEO")
                   THEN [p1 EXCEPT !.ceo_favor = Min2(@ + amount \div 2, Fx(100))]
                   ELSE IF target = Some("CTO")
                   THEN [p1 EXCEPT !.cto_relationship = Min2(@ + amount \div 2, Fx(100))]
                   ELSE IF target = Some("CFO")
                   THEN [p1 EXCEPT !.cfo_trust = Min2(@ + amount \div 2, Fx(100))]
                   ELSE p1
         IN [ok |-> TRUE, pc |-> p2]

\* Mutant of earn: the total is not capped at 100.
PoliticalCapital_earn_uncapped(pc, amount) ==
    [pc EXCEPT !.total = @ + amount,
               !.earned_this_quarter = @ + amount]

PoliticalCapital_earn(pc, amount) ==
    [pc EXCEPT !.total = Min2(@ + amount, Fx(100)),
               !.earned_this_quarter = @ + amount]

-----------------------------------------------------------------------------
(* types.rs: security team.                                                *)

SecurityTeam_new ==
    [members |-> << [name |-> "Sarah Chen", capacity |-> Fx(10),
                     burnout_level |-> Fx(60)],
                    [name |-> "Marcus Rodriguez", capacity |-> Fx(8),
                     burnout_level |-> Fx(45)] >>,
     total_capacity |-> Fx(18), committed_capacity |-> Fx(12),
     morale |-> Fx(45), attrition_risk |-> Fx(35)]

SecurityTeam_available_capacity(t) == t.total_capacity - t.committed_capacity

\* allocate_capacity(amount): [ok, team]
SecurityTeam_allocate_capacity(t, amount) ==
    IF SecurityTeam_available_capacity(t) >= amount
    THEN [ok |-> TRUE, team |-> [t EXCEPT !.committed_capacity = @ + amount]]
    ELSE [ok |-> FALSE, team |-> t]

-----------------------------------------------------------------------------
(* types.rs: compliance, reputation.                                       *)

ComplianceFramework == {"SOC2", "ISO27001", "GDPR", "HIPAA", "PciDss", "CCPA",
                        "StateBreachLaws"}

\* ComplianceStatus::new inserts SOC2 only; the map holds compliance_percent.
ComplianceStatus_new ==
    [f \in {"SOC2"} |-> [compliance_percent |-> Fx(40), next_audit |-> 8]]

Reputation_new ==
    [industry_standing |-> Fx(60), board_credibility |-> Fx(75),
     team_morale |-> Fx(50), vendor_relationships |-> Fx(40)]

ReputationDelta_zero ==
    [industry_delta |-> 0, board_delta |-> 0, team_delta |-> 0, vendor_delta |-> 0]

-----------------------------------------------------------------------------
(* types.rs: narrative integrity.                                          *)

IncidentSeverity == {"Low", "Medium", "High", "Critical"}

NarrativeIntegrity_new ==
    [score |-> Fx(100), inconsistencies |-> <<>>, buried_incidents |-> <<>>,
     delayed_escalations |-> <<>>]

\* Mutant of severity_to_score: High and Medium share a rank.
severity_to_score_flat(sev) ==
    CASE sev = "Low" -> Fx(1)
      [] sev = "Medium" -> Fx(2)
      [] sev = "High" -> Fx(2)
      [] sev = "Critical" -> Fx(4)

severity_to_score(sev) ==
    CASE sev = "Low" -> Fx(1)
      [] sev = "Medium" -> Fx(2)
      [] sev = "High" -> Fx(3)
      [] sev = "Critical" -> Fx(4)

NarrativeIntegrity_record_inconsistency(n, t, description, severity) ==
    [n EXCEPT !.score = Max2(@ - severity, 0),
              !.inconsistencies = Append(@, [turn |-> t,
                                             description |-> description,
                                             severity |-> severity])]

NarrativeIntegrity_bury_incident(n, incident_id, actual, reported, t, method) ==
    LET severity_gap == severity_to_score(actual) - severity_to_score(reported)
    IN [n EXCEPT !.score = Max2(@ - severity_gap * 10, 0),
                 !.buried_incidents = Append(@, [incident_id |-> incident_id,
                                                 actual_severity |-> actual,
                                                 reported_severity |-> reported,
                                                 turn_occurred |-> t,
                                                 turn_disclosed |-> None,
                                                 burial_method |-> method])]

\* delay_turns = actually - should_have is a u32 subtraction.
NarrativeIntegrity_delay_escalation(n, incident_id, should_have, actually, justification) ==
    LET delay_turns == actually - should_have
    IN [n EXCEPT !.score = Max2(@ - delay_turns * Fx(5), 0),
                 !.delayed_escalations = Append(@, [incident_id |-> incident_id,
                                                    should_have_escalated_turn |-> should_have,
                                                    actually_escalated_turn |-> actually,
                                                    delay_justification |-> justification])]

\* Mutant of criminal_exposure: two buried incidents are enough.
NarrativeIntegrity_criminal_exposure_two(n) ==
    n.score < Fx(30) /\ Len(n.buried_incidents) >= 2

NarrativeIntegrity_criminal_exposure(n) ==
    n.score < Fx(30) /\ Len(n.buried_incidents) > 2

-----------------------------------------------------------------------------
(* types.rs: budget.                                                       *)

BudgetCategory == {"Headcount", "Tooling", "Project", "Emergency"}

\* Mutant of Budget::new: nothing is committed yet.
Budget_new_uncommitted ==
    [total_annual |-> 250, spent |-> 0, committed |-> 0,
     headcount_budget |-> 120, tooling_budget |-> 60, project_budget |-> 40,
     emergency_reserve |-> 30]

Budget_new ==
    [total_annual |-> 250, spent |-> 0, committed |-> 80,
     headcount_budget |-> 120, tooling_budget |-> 60, project_budget |-> 40,
     emergency_reserve |-> 30]

Budget_available(b) == b.total_annual - b.spent - b.committed

Budget_category_budget(b, category) ==
    CASE category = "Headcount" -> b.headcount_budget
      [] category = "Tooling" -> b.tooling_budget
      [] category = "Project" -> b.project_budget
      [] category = "Emergency" -> b.emergency_reserve

Budget_can_spend(b, amount, category) ==
    Budget_available(b) >= amount /\ Budget_category_budget(b, category) >= amount

\* Mutant of Budget_spend: the amount is booked as spent before the test.
Budget_spend_booked_first(b, amount, category) ==
    LET b1 == [b EXCEPT !.spent = @ + amount]
    IN IF ~Budget_can_spend(b, amount, category)
       THEN [ok |-> FALSE, budget |-> b1]
       ELSE [ok |-> TRUE,
             budget |->
               CASE category = "Headcount" -> [b1 EXCEPT !.headcount_budget = @ - amount]
                 [] category = "Tooling" -> [b1 EXCEPT !.tooling_budget = @ - amount]
                 [] category = "Project" -> [b1 EXCEPT !.project_budget = @ - amount]
                 [] category = "Emergency" -> [b1 EXCEPT !.emergency_reserve = @ - amount]]

\* Mutant of Budget_spend: only the category budget is tested.
Budget_spend_category_only(b, amount, category) ==
    IF Budget_category_budget(b, category) < amount
    THEN [ok |-> FALSE, budget |-> b]
    ELSE LET b1 == [b EXCEPT !.spent = @ + amount]
         IN [ok |-> TRUE,
             budget |->
               CASE category = "Headcount" -> [b1 EXCEPT !.headcount_budget = @ - amount]
                 [] category = "Tooling" -> [b1 EXCEPT !.tooling_budget = @ - amount]
                 [] category = "Project" -> [b1 EXCEPT !.project_budget = @ - amount]
                 [] category = "Emergency" -> [b1 EXCEPT !.emergency_reserve = @ - amount]]

\* spend(amount, category): [ok, budget]
Budget_spend(b, amount, category) ==
    IF ~Budget_can_spend(b, amount, category)
    THEN [ok |-> FALSE, budget |-> b]
    ELSE LET b1 == [b EXCEPT !.spent = @ + amount]
         IN [ok |-> TRUE,
             budget |->
               CASE category = "Headcount" -> [b1 EXCEPT !.headcount_budget = @ - amount]
                 [] category = "Tooling" -> [b1 EXCEPT !.tooling_budget = @ - amount]
                 [] category = "Project" -> [b1 EXCEPT !.project_budget = @ - amount]
                 [] category = "Emergency" -> [b1 EXCEPT !.emergency_reserve = @ - amount]]

-----------------------------------------------------------------------------
(* types.rs: decision impact.                                              *)

DecisionImpact_new(id) ==
    [decision_id |-> id,
     risk_delta |-> RiskDelta_zero,
     business_delta |-> BusinessDelta_zero,
     budget_cost |-> 0,
     budget_category |-> "Project",
     political_capital_cost |-> 0,
     political_capital_gain |-> 0,
     team_capacity_required |-> 0,
     reputation_impact |-> ReputationDelta_zero,
     compliance_impact |-> [framework_progress |-> EmptyMap],
     narrative_impact |-> None,
     audit_trail |-> "Clean"]

NarrativeImpact(penalty, inconsistency, buries, delays, reason) ==
    [integrity_penalty |-> penalty, creates_inconsistency |-> inconsistency,
     buries_incident |-> buries, delays_escalation |-> delays, reason |-> reason]

ChoicePrerequisites(b, pc, t) ==
    [min_budget |-> b, min_political_capital |-> pc, min_team_capacity |-> t]

ChoicePrerequisites_default == ChoicePrerequisites(0, 0, 0)

-----------------------------------------------------------------------------
(* state.rs: the GameState aggregate.                                      *)

GameStartEvent ==
    [turn |-> 0, event_type |-> "GameStart", description |-> "appointed",
     decision_id |-> None, visibility |-> "Management", metadata |-> <<>>]

initialize_board ==
    << [role |-> "CEO", personality |-> "PoliticallyShrewd",
        current_priority |-> "GrowthAtAllCosts", satisfaction |-> Fx(70),
        influence |-> Fx(95)],
       [role |-> "CFO", personality |-> "BottomLineFocused",
        current_priority |-> "CostReduction", satisfaction |-> Fx(60),
        influence |-> Fx(80)],
       [role |-> "CTO", personality |-> "TechnicallyMinded",
        current_priority |-> "RiskMitigation", satisfaction |-> Fx(50),
        influence |-> Fx(75)],
       [role |-> "GeneralCounsel", personality |-> "RiskAverse",
        current_priority |-> "ComplianceFirst", satisfaction |-> Fx(55),
        influence |-> Fx(70)] >>

initial_objectives ==
    << [id |-> "soc2_cert", assigned_quarter |-> 1, priority |-> "Critical",
        progress |-> 0, completion_turn |-> None, assigned_by |-> "CEO"],
       [id |-> "reduce_incidents", assigned_quarter |-> 1, priority |-> "High",
        progress |-> 0, completion_turn |-> None, assigned_by |-> "CTO"] >>

TechnicalDebt_new ==
    [total_debt_points |-> Fx(180), debt_velocity |-> Fx(5),
     oldest_debt_age_turns |-> 12]

GameState_new ==
    [turn |-> 1,
     quarter |-> 1,
     phase |-> <<"InheritanceDisaster">>,
     risk |-> RiskLevel_new,
     business |-> BusinessMetrics_new,
     narrative |-> NarrativeIntegrity_new,
     budget |-> Budget_new,
     political_capital |-> PoliticalCapital_new,
     team |-> SecurityTeam_new,
     compliance |-> ComplianceStatus_new,
     reputation |-> Reputation_new,
     board |-> initialize_board,
     events |-> <<GameStartEvent>>,
     decisions_made |-> <<>>,
     active_incidents |-> <<>>,
     resolved_incidents |-> <<>>,
     quarterly_objectives |-> initial_objectives,
     technical_debt |-> TechnicalDebt_new,
     threat_level |-> "Baseline"]

\* The GameState the variables hold.
GS ==
    [turn |-> turn, quarter |-> quarter, phase |-> phase, risk |-> risk,
     business |-> business, narrative |-> narrative, budget |-> budget,
     political_capital |-> political_capital, team |-> team,
     compliance |-> compliance, reputation |-> reputation, board |-> board,
     events |-> events, decisions_made |-> decisions_made,
     active_incidents |-> active_incidents,
     resolved_incidents |-> resolved_incidents,
     quarterly_objectives |-> quarterly_objectives,
     technical_debt |-> technical_debt, threat_level |-> threat_level]

\* The variables take the fields of GameState s.
SetGS(s) ==
    /\ turn' = s.turn
    /\ quarter' = s.quarter
    /\ phase' = s.phase
    /\ risk' = s.risk
    /\ business' = s.business
    /\ narrative' = s.narrative
    /\ budget' = s.budget
    /\ political_capital' = s.political_capital
    /\ team' = s.team
    /\ compliance' = s.compliance
    /\ reputation' = s.reputation
    /\ board' = s.board
    /\ events' = s.events
    /\ decisions_made' = s.decisions_made
    /\ active_incidents' = s.active_incidents
    /\ resolved_incidents' = s.resolved_incidents
    /\ quarterly_objectives' = s.quarterly_objectives
    /\ technical_debt' = s.technical_debt
    /\ threat_level' = s.threat_level

\* Mutant of add_event: the event is put in front of the log.
add_event_in_front(s, event_type, description, decision_id, visibility) ==
    [s EXCEPT !.events = <<[turn |-> s.turn,
                            event_type |-> event_type,
                            description |-> description,
                            decision_id |-> decision_id,
                            visibility |-> visibility,
                            metadata |-> <<s.phase, s.quarter>>]>> \o @]

add_event(s, event_type, description, decision_id, visibility) ==
    [s EXCEPT !.events = Append(@, [turn |-> s.turn,
                                    event_type |-> event_type,
                                    description |-> description,
                                    decision_id |-> decision_id,
                                    visibility |-> visibility,
                                    metadata |-> <<s.phase, s.quarter>>])]

\* Mutant of calculate_ending: a narrative score of 85 is enough for GoldenCISO.
calculate_ending_score_85(s) ==
    LET IsCritical(i) == i.severity = "Critical"
        IsOpenCritical(i) == i.severity = "Critical" /\ i.response_status # "Closed"
        critical_incidents ==
            Cardinality({i \in 1..Len(s.active_incidents) : IsCritical(s.active_incidents[i])})
        unresolved_critical ==
            Cardinality({i \in 1..Len(s.active_incidents) : IsOpenCritical(s.active_incidents[i])})
    IN IF NarrativeIntegrity_criminal_exposure(s.narrative)
       THEN "CriminalInvestigation"
       ELSE IF critical_incidents = 0
               /\ s.narrative.score >= Fx(85)
               /\ s.business.arr_millions > Fx(10)
               /\ s.business.board_confidence_percent > Fx(50)
               /\ s.risk.total_exposure < Fx(150)
               /\ s.compliance["SOC2"].compliance_percent > Fx(90)
               /\ \A i \in 1..Len(s.board) : s.board[i].satisfaction > Fx(70)
       THEN "GoldenCISO"
       ELSE IF unresolved_critical > 0
               \/ s.narrative.score < Fx(50)
               \/ s.business.board_confidence_percent < Fx(30)
       THEN "PostBreachCleanup"
       ELSE "LawsuitSurvivor"

\* Mutant of calculate_ending: GoldenCISO does not look at the incidents.
calculate_ending_no_incident_test(s) ==
    LET IsOpenCritical(i) == i.severity = "Critical" /\ i.response_status # "Closed"
        unresolved_critical ==
            Cardinality({i \in 1..Len(s.active_incidents) : IsOpenCritical(s.active_incidents[i])})
    IN IF NarrativeIntegrity_criminal_exposure(s.narrative)
       THEN "CriminalInvestigation"
       ELSE IF s.narrative.score > Fx(85)
               /\ s.business.arr_millions > Fx(10)
               /\ s.business.board_confidence_percent > Fx(50)
               /\ s.risk.total_exposure < Fx(150)
               /\ s.compliance["SOC2"].compliance_percent > Fx(90)
               /\ \A i \in 1..Len(s.board) : s.board[i].satisfaction > Fx(70)
       THEN "GoldenCISO"
       ELSE IF unresolved_critical > 0
               \/ s.narrative.score < Fx(50)
               \/ s.business.board_confidence_percent < Fx(30)
       THEN "PostBreachCleanup"
       ELSE "LawsuitSurvivor"

calculate_ending(s) ==
    LET IsCritical(i) == i.severity = "Critical"
        IsOpenCritical(i) == i.severity = "Critical" /\ i.response_status # "Closed"
        critical_incidents ==
            Cardinality({i \in 1..Len(s.active_incidents) : IsCritical(s.active_incidents[i])})
        unresolved_critical ==
            Cardinality({i \in 1..Len(s.active_incidents) : IsOpenCritical(s.active_incidents[i])})
        narrative_score == s.narrative.score
        business_health == s.business.arr_millions > Fx(10)
                           /\ s.business.board_confidence_percent > Fx(50)
        compliance_score == IF "SOC2" \in DOMAIN s.compliance
                            THEN s.compliance["SOC2"].compliance_percent
                            ELSE 0
        Satisfied(b) == b.satisfaction > Fx(70)
    IN IF NarrativeIntegrity_criminal_exposure(s.narrative)
       THEN "CriminalInvestigation"
       ELSE IF critical_incidents = 0
               /\ narrative_score > Fx(85)
               /\ business_health
               /\ s.risk.total_exposure < Fx(150)
               /\ compliance_score > Fx(90)
               /\ \A i \in 1..Len(s.board) : Satisfied(s.board[i])
       THEN "GoldenCISO"
       ELSE IF unresolved_critical > 0
               \/ narrative_score < Fx(50)
               \/ s.business.board_confidence_percent < Fx(30)
       THEN "PostBreachCleanup"
       ELSE "LawsuitSurvivor"

\* ActiveIncident as the materialization checks and the callers build it.
ActiveIncident(id, severity, t, deadline, status, disclosure) ==
    [id |-> id, title |-> id, severity |-> severity, turn_detected |-> t,
     turn_deadline |-> deadline, escalated_to_board |-> FALSE,
     escalation_turn |-> None, response_status |-> status,
     capacity_consumed |-> 0, containment_percent |-> 0,
     root_cause_identified |-> FALSE,
     public_disclosure_required |-> disclosure,
     customer_impact_count |-> None,
     timeline |-> <<>>]

\* Mutant of capacity_needed: a Critical incident asks for what a High one does.
capacity_needed_critical_as_high(severity) ==
    CASE severity = "Critical" -> Fx(5)
      [] severity = "High" -> Fx(5)
      [] severity = "Medium" -> Fx(3)
      [] severity = "Low" -> Fx(1)

capacity_needed(severity) ==
    CASE severity = "Critical" -> Fx(8)
      [] severity = "High" -> Fx(5)
      [] severity = "Medium" -> Fx(3)
      [] severity = "Low" -> Fx(1)

trigger_incident(s, incident) ==
    LET visibility == IF incident.severity = "Critical" THEN "Board" ELSE "Internal"
        s1 == add_event(s, "IncidentDetected", incident.title, None, visibility)
        al == SecurityTeam_allocate_capacity(s1.team, capacity_needed(incident.severity))
        s2 == [s1 EXCEPT !.team = al.team]
        s3 == IF ~al.ok
              THEN add_event(s2, "IncidentDetected", "WARNING: insufficient capacity",
                             None, "Internal")
              ELSE s2
    IN [s3 EXCEPT !.active_incidents = Append(@, incident)]

\* IncidentTimelineEntry.
TimelineEntry(t, action, actor, visibility) ==
    [turn |-> t, action |-> action, actor |-> actor, visibility |-> visibility]

HasIncident(s, id) ==
    \E i \in 1..Len(s.active_incidents) : s.active_incidents[i].id = id

\* format!("debt_incident_{}", turn)
debt_incident_id(t) ==
    CASE t = 0 -> "debt_incident_0"
      [] t = 3 -> "debt_incident_3"
      [] t = 6 -> "debt_incident_6"
      [] t = 9 -> "debt_incident_9"
      [] t = 12 -> "debt_incident_12"
      [] t = 15 -> "debt_incident_15"
      [] t = 18 -> "debt_incident_18"
      [] OTHER -> "debt_incident_n"

\* any(|i| i.id.starts_with("debt_incident"))
HasDebtIncident(s) ==
    \E i \in 1..Len(s.active_incidents) :
        s.active_incidents[i].id \in {debt_incident_id(t) : t \in 0..19}

s3_breach_incident(t) ==
    [ActiveIncident("s3_breach", "Critical", t, Some(t + 2), "Detected", TRUE)
       EXCEPT !.title = "S3 Bucket Public Exposure",
              !.customer_impact_count = Some(840000),
              !.timeline = <<TimelineEntry(t, "discovered", "Security tooling", "Internal")>>]

credential_stuffing_incident(t) ==
    [ActiveIncident("credential_stuffing", "High", t, Some(t + 3), "Detected", FALSE)
       EXCEPT !.title = "Admin Account Compromise",
              !.timeline = <<TimelineEntry(t, "suspicious logins", "SIEM alert", "Internal")>>]

vendor_breach_incident(t) ==
    [ActiveIncident("vendor_breach", "High", t, Some(t + 4), "Investigating", TRUE)
       EXCEPT !.title = "Third-Party SSO Provider Breach",
              !.timeline = <<TimelineEntry(t, "vendor notification", "Vendor", "Internal")>>]

debt_incident(t) ==
    [ActiveIncident(debt_incident_id(t), "Medium", t, Some(t + 2), "Detected", FALSE)
       EXCEPT !.title = "Legacy System Vulnerability Exploited",
              !.root_cause_identified = TRUE]

\* Mutant of data_exposure_fires: no look for an active "s3_breach".
data_exposure_fires_ungated(s) ==
    s.risk.vectors["DataExposure"].current_level > Fx(60) /\ s.turn > 5

\* Mutant of data_exposure_fires: an "s3_breach" resolved before does not
\* come back.
data_exposure_fires_once(s) ==
    /\ s.risk.vectors["DataExposure"].current_level > Fx(60)
    /\ s.turn > 5
    /\ ~HasIncident(s, "s3_breach")
    /\ \A i \in 1..Len(s.resolved_incidents) :
          s.resolved_incidents[i].original_incident # "s3_breach"

\* The condition under which the data exposure check triggers its incident.
data_exposure_fires(s) ==
    /\ s.risk.vectors["DataExposure"].current_level > Fx(60)
    /\ s.turn > 5
    /\ ~HasIncident(s, "s3_breach")

access_control_fires(s) ==
    /\ s.risk.vectors["AccessControl"].current_level > Fx(50)
    /\ s.risk.vectors["AccessControl"].mitigation_coverage < Fx(30)
    /\ s.turn > 6
    /\ ~HasIncident(s, "credential_stuffing")

vendor_risk_fires(s) ==
    /\ s.risk.vectors["VendorRisk"].current_level > Fx(40)
    /\ s.turn > 7
    /\ ~HasIncident(s, "vendor_breach")

\* Mutant of technical_debt_fires: the debt total is not looked at.
technical_debt_fires_any_total(s) ==
    s.turn % 3 = 0 /\ ~HasDebtIncident(s)

\* Mutant of technical_debt_fires: the debt has to be above 205.
technical_debt_fires_above_205(s) ==
    /\ s.technical_debt.total_debt_points > Fx(205)
    /\ s.turn % 3 = 0
    /\ ~HasDebtIncident(s)

technical_debt_fires(s) ==
    /\ s.technical_debt.total_debt_points > Fx(200)
    /\ s.turn % 3 = 0
    /\ ~HasDebtIncident(s)

\* check_risk_materialization: [state, materialized]; the four checks run in
\* order, each on the state the one before it left.
check_risk_materialization(s) ==
    LET fire1 == data_exposure_fires(s)
        s1 == IF fire1 THEN trigger_incident(s, s3_breach_incident(s.turn)) ELSE s
        m1 == IF fire1 THEN <<"CRITICAL: S3 bucket">> ELSE <<>>
        fire2 == access_control_fires(s1)
        s2 == IF fire2 THEN trigger_incident(s1, credential_stuffing_incident(s1.turn)) ELSE s1
        m2 == IF fire2 THEN Append(m1, "HIGH: Admin account compromised") ELSE m1
        fire3 == vendor_risk_fires(s2)
        s3 == IF fire3 THEN trigger_incident(s2, vendor_breach_incident(s2.turn)) ELSE s2
        m3 == IF fire3 THEN Append(m2, "HIGH: SSO vendor breach") ELSE m2
        fire4 == technical_debt_fires(s3)
        s4 == IF fire4 THEN trigger_incident(s3, debt_incident(s3.turn)) ELSE s3
        m4 == IF fire4 THEN Append(m3, "MEDIUM: Technical debt materialized") ELSE m3
    IN [state |-> s4, materialized |-> m4]

materialize_risks(s) == check_risk_materialization(s)

\* The first position of the sequence whose element has the id; 0 if none.
IndexOfIncident(incidents, id) ==
    IF \E i \in 1..Len(incidents) : incidents[i].id = id
    THEN MinOfSet({i \in 1..Len(incidents) : incidents[i].id = id})
    ELSE 0

\* Mutant of escalate_incident_to_board: an incident already escalated is
\* escalated again.
escalate_incident_to_board_again(s, incident_id) ==
    LET k == IndexOfIncident(s.active_incidents, incident_id)
    IN IF k = 0
       THEN [result |-> "InvalidAction", state |-> s]
       ELSE LET turn_detected == s.active_incidents[k].turn_detected
                title == s.active_incidents[k].title
                s1 == add_event([s EXCEPT !.political_capital =
                                              PoliticalCapital_earn(@, Fx(5))],
                                "IncidentEscalated", title, None, "Board")
            IN [result |-> "Ok",
                state |-> [s1 EXCEPT !.active_incidents[k].escalated_to_board = TRUE,
                                     !.active_incidents[k].escalation_turn = Some(s.turn),
                                     !.active_incidents[k].timeline =
                                         Append(@, TimelineEntry(s.turn, "escalated",
                                                                 "player", "Board"))]]

\* Mutant of escalate_incident_to_board: an escalation two turns after
\* detection still counts as timely.
escalate_incident_to_board_two_turns(s, incident_id) ==
    LET k == IndexOfIncident(s.active_incidents, incident_id)
    IN IF k = 0 \/ s.active_incidents[k].escalated_to_board
       THEN [result |-> "InvalidAction", state |-> s]
       ELSE LET turn_detected == s.active_incidents[k].turn_detected
                title == s.active_incidents[k].title
                is_timely == s.turn - turn_detected <= 2
                s1 == IF is_timely
                      THEN add_event([s EXCEPT !.political_capital =
                                                   PoliticalCapital_earn(@, Fx(5))],
                                     "IncidentEscalated", title, None, "Board")
                      ELSE LET sa == add_event(
                                       [s EXCEPT !.political_capital.total =
                                                     Max2(@ - Fx(10), 0)],
                                       "IncidentEscalated", title, None, "Board")
                           IN [sa EXCEPT !.narrative =
                                   NarrativeIntegrity_delay_escalation(
                                       @, incident_id, turn_detected, s.turn, "delayed")]
            IN [result |-> "Ok",
                state |-> [s1 EXCEPT !.active_incidents[k].escalated_to_board = TRUE,
                                     !.active_incidents[k].escalation_turn = Some(s.turn),
                                     !.active_incidents[k].timeline =
                                         Append(@, TimelineEntry(s.turn, "escalated",
                                                                 "player", "Board"))]]

\* escalate_incident_to_board(incident_id): [result, state]
escalate_incident_to_board(s, incident_id) ==
    LET k == IndexOfIncident(s.active_incidents, incident_id)
    IN IF k = 0 \/ s.active_incidents[k].escalated_to_board
       THEN [result |-> "InvalidAction", state |-> s]
       ELSE LET turn_detected == s.active_incidents[k].turn_detected
                title == s.active_incidents[k].title
                is_timely == s.turn - turn_detected <= 1
                s1 == IF is_timely
                      THEN add_event([s EXCEPT !.political_capital =
                                                   PoliticalCapital_earn(@, Fx(5))],
                                     "IncidentEscalated", title, None, "Board")
                      ELSE LET sa == add_event(
                                       [s EXCEPT !.political_capital.total =
                                                     Max2(@ - Fx(10), 0)],
                                       "IncidentEscalated", title, None, "Board")
                           IN [sa EXCEPT !.narrative =
                                   NarrativeIntegrity_delay_escalation(
                                       @, incident_id, turn_detected, s.turn, "delayed")]
            IN [result |-> "Ok",
                state |-> [s1 EXCEPT !.active_incidents[k].escalated_to_board = TRUE,
                                     !.active_incidents[k].escalation_turn = Some(s.turn),
                                     !.active_incidents[k].timeline =
                                         Append(@, TimelineEntry(s.turn, "escalated",
                                                                 "player", "Board"))]]

RemoveAt(sq, k) == SubSeq(sq, 1, k - 1) \o SubSeq(sq, k + 1, Len(sq))

final_cost(severity) ==
    CASE severity = "Critical" -> 50
      [] severity = "High" -> 20
      [] severity = "Medium" -> 5
      [] severity = "Low" -> 1

\* Mutant of resolve_incident: every active incident with the id is removed.
resolve_incident_all(s, incident_id, lessons_learned) ==
    LET k == IndexOfIncident(s.active_incidents, incident_id)
    IN IF k = 0
       THEN [result |-> "InvalidAction", state |-> s]
       ELSE LET incident == s.active_incidents[k]
                time_to_resolve == s.turn - incident.turn_detected
                resolved == [id |-> <<"resolved", incident.id>>,
                             original_incident |-> incident.id,
                             resolution_turn |-> s.turn,
                             time_to_resolve |-> time_to_resolve,
                             lessons_learned |-> lessons_learned,
                             final_cost |-> final_cost(incident.severity),
                             reputation_impact |->
                                 IF incident.public_disclosure_required THEN -Fx(20)
                                 ELSE IF incident.escalated_to_board THEN -Fx(5)
                                 ELSE 0]
                s1 == [s EXCEPT
                         !.active_incidents =
                             SelectSeq(@, LAMBDA i : i.id # incident_id),
                         !.team.morale = IF time_to_resolve <= 3
                                         THEN Min2(@ + Fx(5), Fx(100))
                                         ELSE Max2(@ - Fx(5), 0),
                         !.budget = Budget_spend(@, final_cost(incident.severity),
                                                 "Emergency").budget,
                         !.resolved_incidents = Append(@, resolved)]
            IN [result |-> "Ok",
                state |-> add_event(s1, "IncidentResolved", incident.title, None,
                                    IF incident.escalated_to_board
                                    THEN "Board" ELSE "Internal")]

\* resolve_incident(incident_id, lessons_learned): [result, state]
resolve_incident(s, incident_id, lessons_learned) ==
    LET k == IndexOfIncident(s.active_incidents, incident_id)
    IN IF k = 0
       THEN [result |-> "InvalidAction", state |-> s]
       ELSE LET incident == s.active_incidents[k]
                time_to_resolve == s.turn - incident.turn_detected
                resolved == [id |-> <<"resolved", incident.id>>,
                             original_incident |-> incident.id,
                             resolution_turn |-> s.turn,
                             time_to_resolve |-> time_to_resolve,
                             lessons_learned |-> lessons_learned,
                             final_cost |-> final_cost(incident.severity),
                             reputation_impact |->
                                 IF incident.public_disclosure_required THEN -Fx(20)
                                 ELSE IF incident.escalated_to_board THEN -Fx(5)
                                 ELSE 0]
                s1 == [s EXCEPT
                         !.active_incidents = RemoveAt(@, k),
                         !.team.morale = IF time_to_resolve <= 3
                                         THEN Min2(@ + Fx(5), Fx(100))
                                         ELSE Max2(@ - Fx(5), 0),
                         !.budget = Budget_spend(@, final_cost(incident.severity),
                                                 "Emergency").budget,
                         !.resolved_incidents = Append(@, resolved)]
            IN [result |-> "Ok",
                state |-> add_event(s1, "IncidentResolved", incident.title, None,
                                    IF incident.escalated_to_board
                                    THEN "Board" ELSE "Internal")]

\* Mutant of quarterly_reset: only the spending counter is reset.
PoliticalCapital_quarterly_reset_spent_only(pc) ==
    [pc EXCEPT !.spent_this_quarter = 0]

\* PoliticalCapital::quarterly_reset
PoliticalCapital_quarterly_reset(pc) ==
    [pc EXCEPT !.earned_this_quarter = 0, !.spent_this_quarter = 0]

\* format!("q{}_objective", quarter)
objective_id(q) ==
    CASE q = 2 -> "q2_objective"
      [] q = 3 -> "q3_objective"
      [] q = 4 -> "q4_objective"
      [] q = 5 -> "q5_objective"
      [] OTHER -> "qn_objective"

\* Mutant of generate_next_quarter_objectives: the objective of the second
\* quarter is Critical.
generate_next_quarter_objectives_critical(s) ==
    LET new_objective ==
            [id |-> objective_id(s.quarter), assigned_quarter |-> s.quarter,
             priority |-> IF s.quarter = 2 THEN "Critical"
                          ELSE IF s.quarter = 3 THEN "High" ELSE "Medium",
             progress |-> 0, completion_turn |-> None,
             assigned_by |-> IF s.quarter = 2 THEN "CTO" ELSE "CEO"]
    IN [s EXCEPT !.quarterly_objectives = Append(@, new_objective)]

generate_next_quarter_objectives(s) ==
    LET new_objective ==
            [id |-> objective_id(s.quarter), assigned_quarter |-> s.quarter,
             priority |-> IF s.quarter \in {2, 3} THEN "High" ELSE "Medium",
             progress |-> 0, completion_turn |-> None,
             assigned_by |-> IF s.quarter = 2 THEN "CTO" ELSE "CEO"]
    IN [s EXCEPT !.quarterly_objectives = Append(@, new_objective)]

\* Mutant of review_capital: the gain and the penalty are both applied.
review_capital_both(pc, objectives_met, critical_missed) ==
    LET earned == IF objectives_met > 0
                  THEN PoliticalCapital_earn(pc, objectives_met * Fx(10))
                  ELSE pc
    IN [earned EXCEPT !.total = Max2(@ - critical_missed * Fx(15), 0)]

\* The political capital after the review: the gain for the objectives met
\* or, when none was met, the loss for the critical objectives missed.
review_capital(pc, objectives_met, critical_missed) ==
    IF objectives_met > 0
    THEN PoliticalCapital_earn(pc, objectives_met * Fx(10))
    ELSE [pc EXCEPT !.total = Max2(@ - critical_missed * Fx(15), 0)]

conduct_quarterly_review(s) ==
    LET s1 == add_event([s EXCEPT !.quarter = @ + 1], "QuarterEnd", "quarter ends",
                        None, "Board")
        s2 == [s1 EXCEPT !.political_capital = PoliticalCapital_quarterly_reset(@)]
        Met(o) == o.progress >= Fx(100) /\ o.completion_turn = None
        Missed(o) == ~Met(o) /\ o.priority = "Critical" /\ o.progress < Fx(50)
        objs == s2.quarterly_objectives
        objectives_met == Cardinality({i \in 1..Len(objs) : Met(objs[i])})
        critical_missed == Cardinality({i \in 1..Len(objs) : Missed(objs[i])})
        s3 == [s2 EXCEPT !.quarterly_objectives =
                   [i \in 1..Len(objs) |->
                       IF Met(objs[i])
                       THEN [objs[i] EXCEPT !.completion_turn = Some(s.turn)]
                       ELSE objs[i]]]
        s4 == [s3 EXCEPT !.political_capital =
                             review_capital(@, objectives_met, critical_missed)]
        s5 == generate_next_quarter_objectives(s4)
    IN add_event(s5, "BoardReview", "board review", None, "Board")

\* The members check_attrition can remove: a member leaves when
\* rand::random() < (burnout_level + attrition_risk) / 200.
CanLeave(team_, i) == team_.members[i].burnout_level + team_.attrition_risk > 0

MustLeave(team_, i) == team_.members[i].burnout_level + team_.attrition_risk >= Fx(200)

AttritionOutcomes(team_) ==
    { leaving \in SUBSET (1..Len(team_.members)) :
        \A i \in 1..Len(team_.members) :
            /\ i \in leaving => CanLeave(team_, i)
            /\ MustLeave(team_, i) => i \in leaving }

ThreatLevel == {"Baseline", "Elevated", "High", "Severe"}

\* The levels the draws of ThreatLandscape::evolve are taken from here.
ThreatRolls == {"Baseline", "Severe"}

\* The loop of advance_turn over the departed members.
RECURSIVE members_departed(_, _)
members_departed(s, departed) ==
    IF departed = <<>> THEN s
    ELSE LET s1 == add_event(s, "TeamMemberDeparted", Head(departed), None, "Internal")
         IN members_departed([s1 EXCEPT !.team.total_capacity = @ - Fx(8),
                                        !.team.morale = @ - Fx(10)],
                             Tail(departed))

\* Mutant of phase_of_turn: the Discovery phase lasts one turn longer.
phase_of_turn_late(s) ==
    IF s.turn \in 1..3 THEN <<"InheritanceDisaster">>
    ELSE IF s.turn \in 4..12 THEN <<"OperationalTempo">>
    ELSE IF s.turn \in 13..17 THEN <<"Discovery">>
    ELSE <<"Ended", calculate_ending(s)>>

phase_of_turn(s) ==
    IF s.turn \in 1..3 THEN <<"InheritanceDisaster">>
    ELSE IF s.turn \in 4..12 THEN <<"OperationalTempo">>
    ELSE IF s.turn \in 13..16 THEN <<"Discovery">>
    ELSE <<"Ended", calculate_ending(s)>>

\* Mutant of advance_turn: the cascade is computed before the decay.
advance_turn_cascade_first(s, leaving, rolled) ==
    LET s1 == [s EXCEPT !.turn = @ + 1]
        s2 == [s1 EXCEPT
                 !.risk = RiskLevel_apply_decay(
                              RiskLevel_calculate_cascade_effects(@), s1.turn),
                 !.threat_level = IF s1.turn % 4 = 0 THEN rolled ELSE @,
                 !.technical_debt.total_debt_points = @ + s1.technical_debt.debt_velocity]
        kept == SelectSeq(s2.team.members, LAMBDA m :
                    \A i \in leaving : s2.team.members[i] # m)
        names == [i \in 1..Len(s2.team.members) |-> s2.team.members[i].name]
        departed == SelectSeq(names, LAMBDA n :
                        \E i \in leaving : s2.team.members[i].name = n)
        s3 == members_departed([s2 EXCEPT !.team.members = kept], departed)
        s4 == check_risk_materialization(s3).state
        s5 == [s4 EXCEPT !.phase = phase_of_turn(s4)]
    IN CHOOSE after \in { IF before.turn % 4 = 0
                           THEN conduct_quarterly_review(before)
                           ELSE before : before \in {s5} } : TRUE

\* advance_turn; leaving is the set of members whose roll makes them leave
\* and rolled the threat level drawn on a turn that is a multiple of 4.
advance_turn(s, leaving, rolled) ==
    LET s1 == [s EXCEPT !.turn = @ + 1]
        s2 == [s1 EXCEPT
                 !.risk = RiskLevel_calculate_cascade_effects(
                              RiskLevel_apply_decay(@, s1.turn)),
                 !.threat_level = IF s1.turn % 4 = 0 THEN rolled ELSE @,
                 !.technical_debt.total_debt_points = @ + s1.technical_debt.debt_velocity]
        kept == SelectSeq(s2.team.members, LAMBDA m :
                    \A i \in leaving : s2.team.members[i] # m)
        names == [i \in 1..Len(s2.team.members) |-> s2.team.members[i].name]
        departed == SelectSeq(names, LAMBDA n :
                        \E i \in leaving : s2.team.members[i].name = n)
        s3 == members_departed([s2 EXCEPT !.team.members = kept], departed)
        s4 == check_risk_materialization(s3).state
        s5 == [s4 EXCEPT !.phase = phase_of_turn(s4)]
    IN CHOOSE after \in { IF before.turn % 4 = 0
                           THEN conduct_quarterly_review(before)
                           ELSE before : before \in {s5} } : TRUE

-----------------------------------------------------------------------------
(* decisions.rs: Decision::apply_choice.                                   *)
(* A call returns [result, step, state, value]: result is "Ok" or the      *)
(* GameError, step names the place of the return, state is the GameState   *)
(* the call leaves, value is Some(impact) on Ok.                           *)

Return(result, step, s, value) ==
    [result |-> result, step |-> step, state |-> s, value |-> value]

\* self.choices.iter().find(|c| c.id == choice_id)
find_choice(d, choice_id) ==
    LET hits == {i \in 1..Len(d.choices) : d.choices[i].id = choice_id}
    IN IF hits = {} THEN None ELSE Some(d.choices[MinOfSet(hits)])

\* Mutant of check_prerequisites: team capacity is tested first.
check_prerequisites_team_first(choice, s) ==
    LET p == choice.prerequisites
    IN IF p.min_team_capacity > 0
          /\ SecurityTeam_available_capacity(s.team) < p.min_team_capacity
       THEN "TeamCapacityExceeded"
       ELSE IF p.min_budget > 0 /\ Budget_available(s.budget) < p.min_budget
       THEN "InsufficientBudget"
       ELSE IF p.min_political_capital > 0
               /\ s.political_capital.total < p.min_political_capital
       THEN "InsufficientPoliticalCapital"
       ELSE "Ok"

\* The three prerequisite tests, in the order of the source.
check_prerequisites(choice, s) ==
    LET p == choice.prerequisites
    IN IF p.min_budget > 0 /\ Budget_available(s.budget) < p.min_budget
       THEN "InsufficientBudget"
       ELSE IF p.min_political_capital > 0
               /\ s.political_capital.total < p.min_political_capital
       THEN "InsufficientPoliticalCapital"
       ELSE IF p.min_team_capacity > 0
               /\ SecurityTeam_available_capacity(s.team) < p.min_team_capacity
       THEN "TeamCapacityExceeded"
       ELSE "Ok"

\* choice.impact_data.clone().unwrap_or_else(|| DecisionImpact::new(choice.id))
choice_impact(choice) ==
    IF choice.impact_data = None
    THEN DecisionImpact_new(choice.id)
    ELSE choice.impact_data[1]

\* state.player.reputation.<axis> += delta, for the four axes.
apply_reputation(rep, delta) ==
    [industry_standing |-> rep.industry_standing + delta.industry_delta,
     board_credibility |-> rep.board_credibility + delta.board_delta,
     team_morale |-> rep.team_morale + delta.team_delta,
     vendor_relationships |-> rep.vendor_relationships + delta.vendor_delta]

\* status.compliance_percent += progress, for the frameworks the state holds.
apply_compliance(frameworks, progress) ==
    [f \in DOMAIN frameworks |->
        IF f \in DOMAIN progress
        THEN [frameworks[f] EXCEPT !.compliance_percent = @ + progress[f]]
        ELSE frameworks[f]]

\* The narrative part of apply_choice: the penalty, then the optional burial
\* and the optional delay (should_have = turn, actually = turn + delay_turns).
apply_narrative(n, impact, t) ==
    IF impact.narrative_impact = None THEN n
    ELSE LET ni == impact.narrative_impact[1]
             n1 == [n EXCEPT !.score = Max2(@ - ni.integrity_penalty, 0)]
             n2 == IF ni.buries_incident = None THEN n1
                   ELSE LET b == ni.buries_incident[1]
                        IN NarrativeIntegrity_bury_incident(n1, b[1], b[2], b[3], t, ni.reason)
         IN IF ni.delays_escalation = None THEN n2
            ELSE LET e == ni.delays_escalation[1]
                 IN NarrativeIntegrity_delay_escalation(n2, e[1], t, t + e[2], ni.reason)

\* Mutant of record_decision: the audit event is logged twice.
record_decision_twice(d, choice, s) ==
    add_event(add_event([s EXCEPT !.decisions_made = Append(@, d.id)],
                        "DecisionMade", choice.label, Some(d.id), "Management"),
              "DecisionMade", choice.label, Some(d.id), "Management")

\* state.decisions_made.push(self.id); state.add_event(DecisionMade, ...)
record_decision(d, choice, s) ==
    add_event([s EXCEPT !.decisions_made = Append(@, d.id)],
              "DecisionMade", choice.label, Some(d.id), "Management")

\* Lines 119-195: the impact applied step by step, with the early returns.
\* spend and allocate_capacity work on the state in place: the state a
\* failing call returns holds whatever they left.
commit_impact(d, choice, impact, s) ==
    LET s1 == [s EXCEPT !.risk = RiskLevel_apply_delta(@, impact.risk_delta),
                        !.business = BusinessMetrics_apply_delta(@, impact.business_delta)]
        sp == Budget_spend(s1.budget, impact.budget_cost, impact.budget_category)
        s2 == IF impact.budget_cost > 0 THEN [s1 EXCEPT !.budget = sp.budget] ELSE s1
    IN IF impact.budget_cost > 0 /\ ~sp.ok
       THEN Return("InsufficientBudget", "budget_spend", s2, None)
       ELSE
    LET pc == PoliticalCapital_spend(s2.political_capital, impact.political_capital_cost, None)
        s3 == IF impact.political_capital_cost > 0
              THEN [s2 EXCEPT !.political_capital = pc.pc] ELSE s2
    IN IF impact.political_capital_cost > 0 /\ ~pc.ok
       THEN Return("InsufficientPoliticalCapital", "political_capital_spend", s3, None)
       ELSE
    LET s4 == IF impact.political_capital_gain > 0
              THEN [s3 EXCEPT !.political_capital =
                                  PoliticalCapital_earn(@, impact.political_capital_gain)]
              ELSE s3
        al == SecurityTeam_allocate_capacity(s4.team, impact.team_capacity_required)
        s5 == IF impact.team_capacity_required > 0
              THEN [s4 EXCEPT !.team = al.team] ELSE s4
    IN IF impact.team_capacity_required > 0 /\ ~al.ok
       THEN Return("TeamCapacityExceeded", "team_allocate", s5, None)
       ELSE
    LET s6 == [s5 EXCEPT !.reputation = apply_reputation(@, impact.reputation_impact),
                         !.compliance = apply_compliance(@, impact.compliance_impact.framework_progress),
                         !.narrative = apply_narrative(@, impact, s5.turn)]
    IN Return("Ok", "done", record_decision(d, choice, s6), Some(impact))

\* Mutant of apply_choice: the risk delta is applied before the prerequisites
\* are tested.
apply_choice_delta_first(d, choice_id, s) ==
    LET found == find_choice(d, choice_id)
    IN IF found = None
       THEN Return("InvalidAction", "lookup", s, None)
       ELSE LET choice == found[1]
                impact == choice_impact(choice)
                s1 == [s EXCEPT !.risk = RiskLevel_apply_delta(@, impact.risk_delta)]
                pre == check_prerequisites(choice, s1)
            IN IF pre # "Ok"
               THEN Return(pre, "prerequisites", s1, None)
               ELSE commit_impact(d, choice, impact, s)

apply_choice(d, choice_id, s) ==
    LET found == find_choice(d, choice_id)
    IN IF found = None
       THEN Return("InvalidAction", "lookup", s, None)
       ELSE LET choice == found[1]
                pre == check_prerequisites(choice, s)
            IN IF pre # "Ok"
               THEN Return(pre, "prerequisites", s, None)
               ELSE commit_impact(d, choice, choice_impact(choice), s)

-----------------------------------------------------------------------------
(* state.rs: GameState::apply_decision_impact and the board reaction.      *)

\* BoardMember::react_to_decision: the member's satisfaction moves by a
\* delta that depends on the member's priority, then is clamped to [0,100].
satisfaction_delta(member, impact) ==
    LET changes == impact.risk_delta.changes
        improvement == [v \in DOMAIN changes |->
                           (changes[v].mitigation_delta \div 2) - changes[v].level_delta]
    IN CASE member.current_priority = "GrowthAtAllCosts" ->
                impact.business_delta.arr_change * 2
                  + (impact.business_delta.velocity_change \div 2)
         [] member.current_priority = "CostReduction" -> -(impact.budget_cost * 5)
         [] member.current_priority = "RiskMitigation" ->
                SumOver(improvement, DOMAIN changes) * 3
         [] member.current_priority = "ComplianceFirst" ->
                impact.business_delta.compliance_change * 4
         [] member.current_priority = "CustomerTrust" ->
                -(impact.business_delta.churn_change * 3)
         [] member.current_priority = "IpoPreparation" ->
                impact.business_delta.compliance_change * 2
                  - impact.business_delta.churn_change * 2

react_to_decision(member, impact) ==
    [member EXCEPT !.satisfaction =
        Min2(Max2(@ + satisfaction_delta(member, impact), 0), Fx(100))]

\* The narrative part of apply_decision_impact: the penalty, then the
\* optional inconsistency, burial and delay (should_have = turn - delay_turns,
\* a u32 subtraction, actually = turn).
decision_narrative(n, impact, t) ==
    IF impact.narrative_impact = None THEN n
    ELSE LET ni == impact.narrative_impact[1]
             n1 == [n EXCEPT !.score = Max2(@ - ni.integrity_penalty, 0)]
             n2 == IF ni.creates_inconsistency
                   THEN NarrativeIntegrity_record_inconsistency(
                            n1, t, ni.reason, ni.integrity_penalty)
                   ELSE n1
             n3 == IF ni.buries_incident = None THEN n2
                   ELSE LET b == ni.buries_incident[1]
                        IN NarrativeIntegrity_bury_incident(n2, b[1], b[2], b[3], t, ni.reason)
         IN IF ni.delays_escalation = None THEN n3
            ELSE LET e == ni.delays_escalation[1]
                 IN NarrativeIntegrity_delay_escalation(n3, e[1], t - e[2], t, ni.reason)

\* Mutant of apply_decision_impact: the decision is also written to the log.
apply_decision_impact_logged(s, impact) ==
    add_event(s, "DecisionMade", impact.decision_id, Some(impact.decision_id),
              "Management")

\* apply_decision_impact: every part of the impact is applied, no call's
\* result is looked at, and no event is logged.
apply_decision_impact(s, impact) ==
    LET rep == s.reputation
        d == impact.reputation_impact
        progress == impact.compliance_impact.framework_progress
    IN [s EXCEPT
          !.risk = RiskLevel_apply_delta(@, impact.risk_delta),
          !.business = BusinessMetrics_apply_delta(@, impact.business_delta),
          !.reputation =
              [industry_standing |-> Min2(Max2(rep.industry_standing + d.industry_delta, 0), Fx(100)),
               board_credibility |-> Min2(Max2(rep.board_credibility + d.board_delta, 0), Fx(100)),
               team_morale |-> Min2(Max2(rep.team_morale + d.team_delta, 0), Fx(100)),
               vendor_relationships |-> Min2(Max2(rep.vendor_relationships + d.vendor_delta, 0), Fx(100))],
          !.team = IF impact.team_capacity_required > 0
                   THEN SecurityTeam_allocate_capacity(@, impact.team_capacity_required).team
                   ELSE @,
          !.political_capital =
              LET spent == IF impact.political_capital_cost > 0
                           THEN PoliticalCapital_spend(@, impact.political_capital_cost, None).pc
                           ELSE @
              IN IF impact.political_capital_gain > 0
                 THEN PoliticalCapital_earn(spent, impact.political_capital_gain)
                 ELSE spent,
          !.budget = IF impact.budget_cost > 0
                     THEN Budget_spend(@, impact.budget_cost, impact.budget_category).budget
                     ELSE @,
          !.compliance =
              [f \in DOMAIN s.compliance |->
                  IF f \in DOMAIN progress
                  THEN [s.compliance[f] EXCEPT !.compliance_percent =
                            Min2(Max2(@ + progress[f], 0), Fx(100))]
                  ELSE s.compliance[f]],
          !.narrative = decision_narrative(@, impact, s.turn),
          !.board = [i \in 1..Len(s.board) |-> react_to_decision(s.board[i], impact)],
          !.decisions_made = Append(@, impact.decision_id)]

-----------------------------------------------------------------------------
(* decisions.rs: the scripted turn-1 decision and its three impacts.       *)

honest_assessment_impact ==
    [DecisionImpact_new("honest_assessment") EXCEPT
        !.risk_delta = [changes |->
            [v \in {"DataExposure", "AccessControl"} |-> RiskChange(0, Fx(10), -Fx(2))]],
        !.business_delta = [arr_change |-> -50, velocity_change |-> -Fx(10),
                            churn_change |-> 0, confidence_change |-> -Fx(5),
                            deal_cycle_change |-> Fx(5),
                            differentiator_change |-> Fx(5),
                            compliance_change |-> Fx(10)],
        !.political_capital_gain = Fx(10),
        !.reputation_impact = [industry_delta |-> 0, board_delta |-> -Fx(10),
                               team_delta |-> Fx(10), vendor_delta |-> 0]]

optimistic_commitment_impact ==
    [DecisionImpact_new("optimistic_commitment") EXCEPT
        !.risk_delta = [changes |->
            [v \in {"DataExposure"} |-> RiskChange(Fx(10), 0, Fx(5))]],
        !.business_delta = [BusinessDelta_zero EXCEPT
                                !.confidence_change = Fx(10),
                                !.compliance_change = -Fx(5)],
        !.political_capital_gain = Fx(15),
        !.team_capacity_required = Fx(15),
        !.reputation_impact = [ReputationDelta_zero EXCEPT !.team_delta = -Fx(15)],
        !.audit_trail = "Flagged",
        !.narrative_impact = Some(NarrativeImpact(Fx(10), TRUE, None, None, "overpromised"))]

selective_disclosure_impact ==
    [DecisionImpact_new("selective_disclosure") EXCEPT
        !.business_delta = [BusinessDelta_zero EXCEPT
                                !.velocity_change = -Fx(5),
                                !.confidence_change = Fx(5)],
        !.political_capital_gain = Fx(5),
        !.audit_trail = "Flagged",
        !.narrative_impact = Some(NarrativeImpact(Fx(5), FALSE, None, None, "incomplete"))]

Choice(id, impact_data, prerequisites) ==
    [id |-> id, label |-> id, impact_data |-> impact_data,
     prerequisites |-> prerequisites]

turn_1_inheritance_decision ==
    [id |-> "turn_1_inheritance",
     choices |-> << Choice("honest_assessment", Some(honest_assessment_impact),
                           ChoicePrerequisites_default),
                    Choice("optimistic_commitment", Some(optimistic_commitment_impact),
                           ChoicePrerequisites_default),
                    Choice("selective_disclosure", Some(selective_disclosure_impact),
                           ChoicePrerequisites_default) >>]

-----------------------------------------------------------------------------
(* config.rs: a decision supplied by the decision provider.  Its choices   *)
(* are the inputs of apply_choice the model enumerates: every combination  *)
(* of the three prerequisites over one impact that touches every part of   *)
(* the state, and impacts that reach each step of the pipeline.            *)

gated_impact(id) ==
    [DecisionImpact_new(id) EXCEPT
        !.risk_delta = [changes |->
            [v \in {"DataExposure"} |-> RiskChange(Fx(10), Fx(5), Fx(1))]],
        !.business_delta = [BusinessDelta_zero EXCEPT !.confidence_change = Fx(10)],
        !.budget_cost = 10,
        !.budget_category = "Tooling",
        !.political_capital_cost = Fx(5),
        !.team_capacity_required = Fx(1),
        !.reputation_impact = [ReputationDelta_zero EXCEPT !.board_delta = Fx(5)],
        !.compliance_impact = [framework_progress |-> [f \in {"SOC2"} |-> Fx(10)]],
        !.narrative_impact = Some(NarrativeImpact(Fx(5), FALSE, None, None, "gated"))]

Gate(id, b, pc, t) == Choice(id, Some(gated_impact(id)), ChoicePrerequisites(b, pc, t))

Plain(id, impact) == Choice(id, Some(impact), ChoicePrerequisites_default)

loaded_decision ==
    [id |-> "loaded",
     choices |-> <<
        Gate("gate_none", 0, 0, 0),
        Gate("gate_b", 15, 0, 0),
        Gate("gate_p", 0, Fx(60), 0),
        Gate("gate_t", 0, 0, Fx(10)),
        Gate("gate_bp", 15, Fx(60), 0),
        Gate("gate_bt", 15, 0, Fx(10)),
        Gate("gate_pt", 0, Fx(60), Fx(10)),
        Gate("gate_bpt", 15, Fx(60), Fx(10)),
        Plain("spend_headcount",
              [DecisionImpact_new("spend_headcount") EXCEPT
                  !.budget_cost = 120, !.budget_category = "Headcount"]),
        Plain("spend_project",
              [DecisionImpact_new("spend_project") EXCEPT !.budget_cost = 40]),
        Plain("over_category",
              [DecisionImpact_new("over_category") EXCEPT
                  !.risk_delta = [changes |->
                      [v \in {"VendorRisk"} |-> RiskChange(Fx(20), 0, Fx(2))]],
                  !.business_delta = [BusinessDelta_zero EXCEPT !.arr_change = -50],
                  !.budget_cost = 50, !.budget_category = "Emergency",
                  !.political_capital_gain = Fx(5),
                  !.reputation_impact = [ReputationDelta_zero EXCEPT !.vendor_delta = Fx(5)]]),
        Plain("over_capital",
              [DecisionImpact_new("over_capital") EXCEPT
                  !.budget_cost = 10, !.budget_category = "Tooling",
                  !.political_capital_cost = Fx(60)]),
        Plain("boost",
              [DecisionImpact_new("boost") EXCEPT
                  !.reputation_impact = [ReputationDelta_zero EXCEPT !.industry_delta = Fx(50)],
                  !.compliance_impact = [framework_progress |->
                      [f \in {"SOC2", "GDPR"} |-> Fx(70)]]]),
        Plain("slump",
              [DecisionImpact_new("slump") EXCEPT
                  !.reputation_impact = [ReputationDelta_zero EXCEPT !.team_delta = -Fx(60)]]),
        Plain("bury_down",
              [DecisionImpact_new("bury_down") EXCEPT
                  !.audit_trail = "Toxic",
                  !.narrative_impact = Some(NarrativeImpact(Fx(5), FALSE,
                      Some(<<"inc_a", "Critical", "Low">>), None, "downplayed"))]),
        Plain("bury_up",
              [DecisionImpact_new("bury_up") EXCEPT
                  !.narrative_impact = Some(NarrativeImpact(0, FALSE,
                      Some(<<"inc_b", "Low", "High">>), None, "overstated"))]),
        Plain("delay",
              [DecisionImpact_new("delay") EXCEPT
                  !.narrative_impact = Some(NarrativeImpact(Fx(5), FALSE, None,
                      Some(<<"inc_c", 2>>), "contain first"))]),
        Choice("no_data", None, ChoicePrerequisites_default) >>]

Decisions == {turn_1_inheritance_decision, loaded_decision}

DecisionById(id) == CHOOSE d \in Decisions : d.id = id

ChoiceIds(d) == {d.choices[i].id : i \in 1..Len(d.choices)} \cup {"no_such_choice"}

-----------------------------------------------------------------------------
(* The decision pipeline as a state machine: from GameState::new, any      *)
(* choice of any decision is applied, MaxChoiceOps times at most.          *)

Init ==
    /\ turn = GameState_new.turn
    /\ quarter = GameState_new.quarter
    /\ phase = GameState_new.phase
    /\ risk = GameState_new.risk
    /\ business = GameState_new.business
    /\ narrative = GameState_new.narrative
    /\ budget = GameState_new.budget
    /\ political_capital = GameState_new.political_capital
    /\ team = GameState_new.team
    /\ compliance = GameState_new.compliance
    /\ reputation = GameState_new.reputation
    /\ board = GameState_new.board
    /\ events = GameState_new.events
    /\ decisions_made = GameState_new.decisions_made
    /\ active_incidents = GameState_new.active_incidents
    /\ resolved_incidents = GameState_new.resolved_incidents
    /\ quarterly_objectives = GameState_new.quarterly_objectives
    /\ technical_debt = GameState_new.technical_debt
    /\ threat_level = GameState_new.threat_level
    /\ last = [op |-> "new", args |-> <<>>, result |-> "Ok", step |-> "done",
               value |-> None]
    /\ ops = 0

ApplyChoice ==
    /\ ops < MaxChoiceOps
    /\ \E d \in Decisions : \E choice_id \in ChoiceIds(d) :
          LET r == apply_choice(d, choice_id, GS)
          IN /\ SetGS(r.state)
             /\ last' = [op |-> "apply_choice", args |-> <<d.id, choice_id>>,
                         result |-> r.result, step |-> r.step, value |-> r.value]
    /\ ops' = ops + 1

Next == ApplyChoice

Spec == Init /\ [][Next]_vars

-----------------------------------------------------------------------------
(* Claims about Decision::apply_choice, checked under Spec.                *)

\* The step is a call of apply_choice.
IsApplyChoice == last'.op = "apply_choice" /\ ops' = ops + 1

\* The decision and the choice (None if absent) the call was given.
CalledDecision == DecisionById(last'.args[1])

CalledChoice == find_choice(CalledDecision, last'.args[2])

BudgetViolated(p) == p.min_budget > 0 /\ Budget_available(budget) < p.min_budget

CapitalViolated(p) ==
    p.min_political_capital > 0 /\ political_capital.total < p.min_political_capital

TeamViolated(p) ==
    p.min_team_capacity > 0
    /\ team.total_capacity - team.committed_capacity < p.min_team_capacity

PrerequisiteErrors(p) ==
    (IF BudgetViolated(p) THEN {"InsufficientBudget"} ELSE {})
    \cup (IF CapitalViolated(p) THEN {"InsufficientPoliticalCapital"} ELSE {})
    \cup (IF TeamViolated(p) THEN {"TeamCapacityExceeded"} ELSE {})

\* C1: a call of apply_choice with a choice one of whose prerequisites
\* (min_budget, min_political_capital, min_team_capacity) is violated
\* returns the error of a violated prerequisite and changes no field of
\* GameState.
C1_PrerequisiteFailureAtomic ==
    [][(IsApplyChoice /\ CalledChoice # None
         /\ PrerequisiteErrors(CalledChoice[1].prerequisites) # {})
        => /\ last'.result \in PrerequisiteErrors(CalledChoice[1].prerequisites)
           /\ UNCHANGED gameVars]_vars

\* Scenario C: min_budget = 0.15 against budget.available() = 0.1.
C1_Witness ==
    /\ last.op = "apply_choice"
    /\ last.args = <<"loaded", "gate_b">>
    /\ last.result = "InsufficientBudget"
    /\ Budget_available(budget) = 10

\* C2: every failure of apply_choice other than the InsufficientBudget of
\* the budget-spend step leaves GameState as it was before the call.
C2_OnlyBudgetSpendIsPartial ==
    [][(IsApplyChoice /\ last'.result # "Ok" /\ last'.step # "budget_spend")
        => UNCHANGED gameVars]_vars

\* C3: apply_choice returns InvalidAction for an unknown choice id, else the
\* error of the first violated prerequisite in the order budget, political
\* capital, team capacity; with no prerequisite violated it goes on to apply
\* the impact.
C3_ErrorOrder ==
    [][IsApplyChoice
        => IF CalledChoice = None
           THEN last'.result = "InvalidAction"
           ELSE LET p == CalledChoice[1].prerequisites
                IN IF BudgetViolated(p)
                   THEN last'.result = "InsufficientBudget" /\ last'.step = "prerequisites"
                   ELSE IF CapitalViolated(p)
                   THEN last'.result = "InsufficientPoliticalCapital"
                        /\ last'.step = "prerequisites"
                   ELSE IF TeamViolated(p)
                   THEN last'.result = "TeamCapacityExceeded"
                        /\ last'.step = "prerequisites"
                   ELSE last'.step \notin {"lookup", "prerequisites"}]_vars

\* All three prerequisites violated at once: the budget error is returned.
C3_Witness ==
    /\ last.op = "apply_choice"
    /\ last.args = <<"loaded", "gate_bpt">>
    /\ last.result = "InsufficientBudget"
    /\ Budget_available(budget) < 15
    /\ political_capital.total < Fx(60)
    /\ team.total_capacity - team.committed_capacity < Fx(10)

\* The impact the call applies: the choice's impact data, or the zero
\* impact named after the choice when it has none.
CalledImpact ==
    IF CalledChoice[1].impact_data = None
    THEN DecisionImpact_new(CalledChoice[1].id)
    ELSE CalledChoice[1].impact_data[1]

\* The budget-spend step fails: the prerequisites passed, budget_cost > 0
\* and the total available budget or the category budget is below the cost.
BudgetSpendFails ==
    /\ CalledChoice # None
    /\ PrerequisiteErrors(CalledChoice[1].prerequisites) = {}
    /\ CalledImpact.budget_cost > 0
    /\ \/ Budget_available(budget) < CalledImpact.budget_cost
       \/ Budget_category_budget(budget, CalledImpact.budget_category)
            < CalledImpact.budget_cost

\* C4: when the budget-spend step fails, apply_choice returns
\* InsufficientBudget with the risk delta and the business delta committed
\* and budget, political capital, team, reputation, compliance, narrative,
\* decisions_made and events unchanged.
C4_BudgetSpendFailure ==
    [][(IsApplyChoice /\ BudgetSpendFails)
        => /\ last'.result = "InsufficientBudget"
           /\ risk' = RiskLevel_apply_delta(risk, CalledImpact.risk_delta)
           /\ business' = BusinessMetrics_apply_delta(business, CalledImpact.business_delta)
           /\ UNCHANGED <<budget, political_capital, team, reputation, compliance,
                          narrative, decisions_made, events>>]_vars

\* The Emergency reserve (0.3) is below the cost (0.5) while the total
\* available budget is not; the risk delta of the choice is in the state.
C4_Witness ==
    /\ last.op = "apply_choice"
    /\ last.args = <<"loaded", "over_category">>
    /\ last.result = "InsufficientBudget"
    /\ last.step = "budget_spend"
    /\ Budget_available(budget) >= 50
    /\ budget.emergency_reserve < 50
    /\ risk.vectors["VendorRisk"].current_level = Fx(20)
    /\ business.arr_millions = Fx(12) - 50

\* C5: a successful apply_choice appends the decision's id to
\* decisions_made and one DecisionMade event of Management visibility
\* carrying that id, and returns the choice's impact; a failing one appends
\* nothing to decisions_made and nothing to events.
C5_DecisionRecorded ==
    [][IsApplyChoice
        => IF last'.result = "Ok"
           THEN /\ decisions_made' = Append(decisions_made, CalledDecision.id)
                /\ Len(events') = Len(events) + 1
                /\ SubSeq(events', 1, Len(events)) = events
                /\ events'[Len(events')].event_type = "DecisionMade"
                /\ events'[Len(events')].visibility = "Management"
                /\ events'[Len(events')].decision_id = Some(CalledDecision.id)
                /\ last'.value = Some(CalledImpact)
           ELSE /\ UNCHANGED <<decisions_made, events>>
                /\ last'.value = None]_vars

\* Two successful calls and then a failing one.
C5_Witness ==
    /\ last.op = "apply_choice"
    /\ last.result # "Ok"
    /\ ops = 3
    /\ decisions_made = <<"turn_1_inheritance", "loaded">>
    /\ Len(events) = 3
    /\ events[3].event_type = "DecisionMade"

InPercent(x) == 0 <= x /\ x <= Fx(100)

\* C7: after a successful apply_choice the four reputation axes and every
\* framework's compliance_percent lie within [0,100].
C7_ReputationComplianceBounded ==
    (last.op = "apply_choice" /\ last.result = "Ok")
    => /\ InPercent(reputation.industry_standing)
       /\ InPercent(reputation.board_credibility)
       /\ InPercent(reputation.team_morale)
       /\ InPercent(reputation.vendor_relationships)
       /\ \A f \in DOMAIN compliance : InPercent(compliance[f].compliance_percent)

-----------------------------------------------------------------------------
(* The risk engine alone: RiskLevel::apply_delta, apply_decay and          *)
(* calculate_cascade_effects called in any order on RiskLevel::new().      *)

AllVectors(level, mitigation, trend) ==
    [changes |-> [v \in RiskVector |-> RiskChange(level, mitigation, trend)]]

RiskDeltas ==
    { [changes |-> [v \in {"DataExposure"} |-> RiskChange(Fx(10), 0, 0)]],
      [changes |-> [v \in {"AccessControl"} |-> RiskChange(Fx(65), Fx(50), Fx(3))]],
      [changes |-> [v \in {"VendorRisk", "SupplyChain", "DataExposure"} |->
                        RiskChange(Fx(55), Fx(45), -Fx(2))]],
      [changes |-> [v \in {"CloudMisconfiguration", "Detection"} |->
                        RiskChange(Fx(99), Fx(45), Fx(40))]],
      AllVectors(Fx(150), Fx(150), Fx(1)),
      AllVectors(-Fx(150), -Fx(150), -Fx(1)),
      AllVectors(-Fx(30), -Fx(10), 0) }

Called(op, args, value) ==
    [op |-> op, args |-> args, result |-> "Ok", step |-> "done", value |-> value]

RiskApplyDelta ==
    /\ ops < MaxRiskOps
    /\ \E delta \in RiskDeltas :
          /\ risk' = RiskLevel_apply_delta(risk, delta)
          /\ last' = Called("risk_apply_delta", <<delta>>, None)
    /\ ops' = ops + 1
    /\ UNCHANGED <<turn, quarter, phase, business, narrative, budget,
                   political_capital, team, compliance, reputation, board,
                   events, decisions_made, active_incidents, resolved_incidents,
                   quarterly_objectives, technical_debt, threat_level>>

RiskApplyDecay ==
    /\ ops < MaxRiskOps
    /\ risk' = RiskLevel_apply_decay(risk, turn + ops + 1)
    /\ last' = Called("risk_apply_decay", <<turn + ops + 1>>, Some(risk))
    /\ ops' = ops + 1
    /\ UNCHANGED <<turn, quarter, phase, business, narrative, budget,
                   political_capital, team, compliance, reputation, board,
                   events, decisions_made, active_incidents, resolved_incidents,
                   quarterly_objectives, technical_debt, threat_level>>

RiskCascade ==
    /\ ops < MaxRiskOps
    /\ risk' = RiskLevel_calculate_cascade_effects(risk)
    /\ last' = Called("risk_calculate_cascade_effects", <<>>, None)
    /\ ops' = ops + 1
    /\ UNCHANGED <<turn, quarter, phase, business, narrative, budget,
                   political_capital, team, compliance, reputation, board,
                   events, decisions_made, active_incidents, resolved_incidents,
                   quarterly_objectives, technical_debt, threat_level>>

NextRisk == RiskApplyDelta \/ RiskApplyDecay \/ RiskCascade

SpecRisk == Init /\ [][NextRisk]_vars

\* C6: under any sequence of apply_delta, apply_decay and
\* calculate_cascade_effects from RiskLevel::new(), with positive and
\* negative deltas, all eight vectors are in the map and each one's
\* current_level and mitigation_coverage lie within [0,100].
C6_RiskWithinBounds ==
    /\ DOMAIN risk.vectors = RiskVector
    /\ Cardinality(DOMAIN risk.vectors) = 8
    /\ \A v \in RiskVector :
          /\ 0 <= risk.vectors[v].current_level
          /\ risk.vectors[v].current_level <= Fx(100)
          /\ 0 <= risk.vectors[v].mitigation_coverage
          /\ risk.vectors[v].mitigation_coverage <= Fx(100)

\* A negative delta met the floor, and the cascade then ran on a state in
\* which another vector sits at the cap.
C6_Witness ==
    /\ ops = 3
    /\ last.op = "risk_calculate_cascade_effects"
    /\ risk.vectors["DataExposure"].current_level = 0
    /\ risk.vectors["CloudMisconfiguration"].current_level = Fx(100)

-----------------------------------------------------------------------------
(* The narrative integrity engine alone: record_inconsistency,             *)
(* bury_incident and delay_escalation called in any order on               *)
(* NarrativeIntegrity::new().                                              *)

narrativeFrame == <<turn, quarter, phase, risk, business, budget,
                    political_capital, team, compliance, reputation, board,
                    events, decisions_made, active_incidents,
                    resolved_incidents, quarterly_objectives, technical_debt,
                    threat_level>>

RecordInconsistency ==
    /\ ops < MaxNarrativeOps
    /\ \E severity \in {Fx(5), Fx(40)} :
          /\ narrative' = NarrativeIntegrity_record_inconsistency(
                              narrative, turn, "inconsistency", severity)
          /\ last' = Called("record_inconsistency", <<severity>>, None)
    /\ ops' = ops + 1
    /\ UNCHANGED narrativeFrame

BuryIncident ==
    /\ ops < MaxNarrativeOps
    /\ \E actual \in IncidentSeverity : \E reported \in IncidentSeverity :
          /\ narrative' = NarrativeIntegrity_bury_incident(
                              narrative, "inc", actual, reported, turn, "buried")
          /\ last' = Called("bury_incident", <<actual, reported>>, None)
    /\ ops' = ops + 1
    /\ UNCHANGED narrativeFrame

DelayEscalation ==
    /\ ops < MaxNarrativeOps
    /\ \E actually \in {turn, turn + 2} :
          /\ narrative' = NarrativeIntegrity_delay_escalation(
                              narrative, "inc", turn, actually, "delayed")
          /\ last' = Called("delay_escalation", <<turn, actually>>, None)
    /\ ops' = ops + 1
    /\ UNCHANGED narrativeFrame

NextNarrative == RecordInconsistency \/ BuryIncident \/ DelayEscalation

SpecNarrative == Init /\ [][NextNarrative]_vars

\* C8: no operation raises the narrative integrity score, and the score
\* stays within [0,100].
C8_ScoreNeverIncreases ==
    [][/\ narrative'.score <= narrative.score
       /\ 0 <= narrative'.score
       /\ narrative'.score <= Fx(100)]_vars

Rank(sev) ==
    CASE sev = "Low" -> 1 [] sev = "Medium" -> 2 [] sev = "High" -> 3
      [] sev = "Critical" -> 4

\* C9: bury_incident takes (rank(actual) - rank(reported)) * 10 off the
\* score, the result floored at 0, and appends one BuriedIncident record
\* with the two severities; from 100, actual Critical reported Low gives 70.
C9_BuryPenalty ==
    [][(last'.op = "bury_incident" /\ ops' = ops + 1)
        => LET actual == last'.args[1]
               reported == last'.args[2]
               after == narrative.score - (Rank(actual) - Rank(reported)) * Fx(10)
           IN /\ narrative'.score = IF after < 0 THEN 0 ELSE after
              /\ Len(narrative'.buried_incidents) = Len(narrative.buried_incidents) + 1
              /\ SubSeq(narrative'.buried_incidents, 1, Len(narrative.buried_incidents))
                   = narrative.buried_incidents
              /\ narrative'.buried_incidents[Len(narrative'.buried_incidents)].actual_severity
                   = actual
              /\ narrative'.buried_incidents[Len(narrative'.buried_incidents)].reported_severity
                   = reported
              /\ (narrative.score = Fx(100) /\ actual = "Critical" /\ reported = "Low")
                   => narrative'.score = Fx(70)
              /\ UNCHANGED <<narrative.inconsistencies, narrative.delayed_escalations>>]_vars

\* Scenario D.
C9_Witness ==
    /\ last.op = "bury_incident"
    /\ last.args = <<"Critical", "Low">>
    /\ ops = 1
    /\ narrative.score = Fx(70)
    /\ Len(narrative.buried_incidents) = 1

-----------------------------------------------------------------------------
(* The ending: criminal_exposure and calculate_ending evaluated on game    *)
(* states that differ in narrative, incidents, business and compliance.    *)

EndingBurials == { <<"Critical", "Low">>, <<"High", "Medium">>, <<"Low", "Low">> }

EndingIncidents ==
    { ActiveIncident("inc_critical", "Critical", 1, Some(3), "Detected", TRUE),
      ActiveIncident("inc_closed", "Critical", 1, Some(3), "Closed", FALSE),
      ActiveIncident("inc_low", "Low", 1, None, "Detected", FALSE) }

EndingBury ==
    /\ ops < MaxEndingOps
    /\ \E pair \in EndingBurials :
          /\ narrative' = NarrativeIntegrity_bury_incident(
                              narrative, "inc", pair[1], pair[2], turn, "buried")
          /\ last' = Called("bury_incident", pair, None)
    /\ ops' = ops + 1
    /\ UNCHANGED narrativeFrame

EndingInconsistency ==
    /\ ops < MaxEndingOps
    /\ narrative' = NarrativeIntegrity_record_inconsistency(
                        narrative, turn, "inconsistency", Fx(40))
    /\ last' = Called("record_inconsistency", <<Fx(40)>>, None)
    /\ ops' = ops + 1
    /\ UNCHANGED narrativeFrame

TriggerIncident ==
    /\ ops < MaxEndingOps
    /\ \E incident \in EndingIncidents :
          /\ SetGS(trigger_incident(GS, incident))
          /\ last' = Called("trigger_incident", <<incident.id>>, None)
    /\ ops' = ops + 1

EndingChoice ==
    /\ ops < MaxEndingOps
    /\ \E choice_id \in {"honest_assessment", "selective_disclosure"} :
          LET r == apply_choice(turn_1_inheritance_decision, choice_id, GS)
          IN /\ SetGS(r.state)
             /\ last' = [op |-> "apply_choice",
                         args |-> <<turn_1_inheritance_decision.id, choice_id>>,
                         result |-> r.result, step |-> r.step, value |-> r.value]
    /\ ops' = ops + 1

CriminalExposure ==
    /\ last.op \notin {"criminal_exposure", "calculate_ending"}
    /\ last' = Called("criminal_exposure", <<>>,
                      Some(NarrativeIntegrity_criminal_exposure(narrative)))
    /\ UNCHANGED <<gameVars, ops>>

CalculateEnding ==
    /\ last.op \notin {"criminal_exposure", "calculate_ending"}
    /\ last' = Called("calculate_ending", <<>>, Some(calculate_ending(GS)))
    /\ UNCHANGED <<gameVars, ops>>

NextEnding ==
    \/ EndingBury
    \/ EndingInconsistency
    \/ TriggerIncident
    \/ EndingChoice
    \/ CriminalExposure
    \/ CalculateEnding

SpecEnding == Init /\ [][NextEnding]_vars

Exposed == narrative.score < Fx(30) /\ Len(narrative.buried_incidents) > 2

\* C10: criminal_exposure() is true exactly when the score is below 30 and
\* more than two incidents are buried, and whenever it is true
\* calculate_ending returns CriminalInvestigation whatever the rest of the
\* state holds.
C10_CriminalExposure ==
    /\ last.op = "criminal_exposure" => (last.value = Some(TRUE) <=> Exposed)
    /\ (last.op = "calculate_ending" /\ Exposed)
          => last.value = Some("CriminalInvestigation")

\* Criminal exposure with an unresolved critical incident in the state,
\* which the PostBreachCleanup test would otherwise match.
C10_Witness ==
    /\ last.op = "calculate_ending"
    /\ Exposed
    /\ last.value = Some("CriminalInvestigation")
    /\ \E i \in 1..Len(active_incidents) :
          /\ active_incidents[i].severity = "Critical"
          /\ active_incidents[i].response_status # "Closed"

-----------------------------------------------------------------------------
(* calculate_ending as a function of the state: the fields it reads are    *)
(* drawn from values on both sides of each threshold, all of them values   *)
(* the fields take through apply_decision_impact, trigger_incident and the *)
(* narrative operations.                                                   *)

ThreeBuried ==
    LET b(n) == NarrativeIntegrity_bury_incident(n, "inc", "Low", "Low", 1, "buried")
    IN b(b(b(NarrativeIntegrity_new))).buried_incidents

EndingNarratives ==
    { [NarrativeIntegrity_new EXCEPT !.score = sc, !.buried_incidents = bs] :
        sc \in {Fx(20), Fx(30), Fx(49), Fx(50), Fx(85), Fx(86)},
        bs \in {<<>>, ThreeBuried} }

EndingIncidentLists ==
    {<<>>} \cup { <<i>> : i \in EndingIncidents }

EndingBoards ==
    { [i \in 1..Len(initialize_board) |->
          [initialize_board[i] EXCEPT !.satisfaction = IF i = low THEN Fx(70) ELSE Fx(71)]] :
        low \in 0..2 }

InitEnding ==
    /\ turn = 17
    /\ quarter = 5
    /\ phase = <<"Discovery">>
    /\ risk \in { [RiskLevel_new EXCEPT !.total_exposure = e] : e \in {Fx(149), Fx(150)} }
    /\ business \in { [BusinessMetrics_new EXCEPT !.arr_millions = a,
                                                  !.board_confidence_percent = c] :
                        a \in {Fx(10), Fx(12)}, c \in {Fx(29), Fx(30), Fx(50), Fx(51)} }
    /\ narrative \in EndingNarratives
    /\ budget = Budget_new
    /\ political_capital = PoliticalCapital_new
    /\ team = SecurityTeam_new
    /\ compliance \in { [ComplianceStatus_new EXCEPT !["SOC2"].compliance_percent = p] :
                          p \in {Fx(90), Fx(91)} }
    /\ reputation = Reputation_new
    /\ board \in EndingBoards
    /\ events = <<GameStartEvent>>
    /\ decisions_made = <<>>
    /\ active_incidents \in EndingIncidentLists
    /\ resolved_incidents = <<>>
    /\ quarterly_objectives = initial_objectives
    /\ technical_debt = TechnicalDebt_new
    /\ threat_level = "Baseline"
    /\ last = [op |-> "new", args |-> <<>>, result |-> "Ok", step |-> "done",
               value |-> None]
    /\ ops = 0

NextEndingInputs == CalculateEnding \/ CriminalExposure

SpecEndingInputs == InitEnding /\ [][NextEndingInputs]_vars

GoldenCondition ==
    /\ \A i \in 1..Len(active_incidents) : active_incidents[i].severity # "Critical"
    /\ narrative.score > Fx(85)
    /\ business.arr_millions > Fx(10)
    /\ business.board_confidence_percent > Fx(50)
    /\ risk.total_exposure < Fx(150)
    /\ compliance["SOC2"].compliance_percent > Fx(90)
    /\ \A i \in 1..Len(board) : board[i].satisfaction > Fx(70)

PostBreachCondition ==
    \/ \E i \in 1..Len(active_incidents) :
          /\ active_incidents[i].severity = "Critical"
          /\ active_incidents[i].response_status # "Closed"
    \/ narrative.score < Fx(50)
    \/ business.board_confidence_percent < Fx(30)

\* C11: in a state without criminal exposure calculate_ending returns
\* GoldenCISO exactly when the GoldenCISO conjunction holds, otherwise
\* PostBreachCleanup exactly when the PostBreachCleanup disjunction holds,
\* otherwise LawsuitSurvivor; it returns one of the four endings in every state.
C11_EndingChain ==
    last.op = "calculate_ending"
      => /\ last.value \in { Some(e) : e \in {"GoldenCISO", "LawsuitSurvivor",
                                               "PostBreachCleanup",
                                               "CriminalInvestigation"} }
         /\ ~Exposed =>
              last.value = Some(IF GoldenCondition THEN "GoldenCISO"
                                ELSE IF PostBreachCondition THEN "PostBreachCleanup"
                                ELSE "LawsuitSurvivor")

C11_Witness ==
    /\ last.op = "calculate_ending"
    /\ ~Exposed
    /\ GoldenCondition
    /\ last.value = Some("GoldenCISO")

\* The ending the three conditional tests give when they are made in the
\* order given, falling through to LawsuitSurvivor.
RECURSIVE EndingInOrder(_)
EndingInOrder(order) ==
    IF order = <<>> THEN "LawsuitSurvivor"
    ELSE IF Head(order) = "CriminalInvestigation" /\ Exposed THEN "CriminalInvestigation"
    ELSE IF Head(order) = "GoldenCISO" /\ GoldenCondition THEN "GoldenCISO"
    ELSE IF Head(order) = "PostBreachCleanup" /\ PostBreachCondition THEN "PostBreachCleanup"
    ELSE EndingInOrder(Tail(order))

TestOrders ==
    { o \in [1..3 -> {"CriminalInvestigation", "GoldenCISO", "PostBreachCleanup"}] :
        \A i, j \in 1..3 : i # j => o[i] # o[j] }

\* C12 as stated: the three conditional endings never overlap, so every
\* order of the three tests gives the ending calculate_ending returns.
C12_AnyOrder ==
    /\ ~(Exposed /\ GoldenCondition)
    /\ ~(Exposed /\ PostBreachCondition)
    /\ ~(GoldenCondition /\ PostBreachCondition)
    /\ \A o \in TestOrders : EndingInOrder(o) = calculate_ending(GS)

CriminalBeforePostBreach(o) ==
    \A i, j \in 1..3 :
        (o[i] = "CriminalInvestigation" /\ o[j] = "PostBreachCleanup") => i < j

\* C12, amended: the GoldenCISO conjunction overlaps neither criminal
\* exposure nor the PostBreachCleanup disjunction, while criminal exposure
\* always satisfies the PostBreachCleanup disjunction (score below 30 is
\* below 50); every order of the tests that makes the criminal test before
\* the PostBreachCleanup test gives the ending calculate_ending returns.
C12_OrderExceptCriminal ==
    /\ ~(Exposed /\ GoldenCondition)
    /\ ~(GoldenCondition /\ PostBreachCondition)
    /\ Exposed => PostBreachCondition
    /\ \A o \in TestOrders :
          CriminalBeforePostBreach(o) => EndingInOrder(o) = calculate_ending(GS)

\* Criminal exposure in a state that the PostBreachCleanup test matches
\* through the score alone.
C12_Witness ==
    /\ last.op = "calculate_ending"
    /\ last.value = Some("CriminalInvestigation")
    /\ Exposed
    /\ PostBreachCondition
    /\ active_incidents = <<>>
    /\ business.board_confidence_percent >= Fx(30)

-----------------------------------------------------------------------------
(* Risk materialization: the game loop's materialize_risks and             *)
(* advance_turn, with decisions that raise risk levels and resolutions of  *)
(* the incidents they lead to.                                             *)

risk_impact(id, changes) ==
    [DecisionImpact_new(id) EXCEPT !.risk_delta = [changes |-> changes]]

exposure_decision ==
    [id |-> "exposure",
     choices |-> <<
       Plain("data_up", risk_impact("data_up",
           [v \in {"DataExposure"} |-> RiskChange(Fx(65), 0, 0)])),
       Plain("access_up", risk_impact("access_up",
           [v \in {"AccessControl"} |-> RiskChange(Fx(55), 0, 0)])),
       Plain("vendor_up", risk_impact("vendor_up",
           [v \in {"VendorRisk"} |-> RiskChange(Fx(45), 0, 0)])),
       Plain("all_up", risk_impact("all_up",
           [v \in {"DataExposure", "AccessControl", "VendorRisk"} |->
               RiskChange(Fx(70), Fx(20), 0)])) >>]

Departures == Len(SecurityTeam_new.members) - Len(team.members)

AdvanceTurn ==
    /\ turn < MaxTurn
    /\ \E leaving \in AttritionOutcomes(team) :
       \E rolled \in (IF (turn + 1) % 4 = 0 THEN ThreatRolls ELSE {threat_level}) :
          /\ Departures + Cardinality(leaving) <= MaxDepartures
          /\ SetGS(advance_turn(GS, leaving, rolled))
          /\ last' = Called("advance_turn", <<>>, None)
    /\ ops' = ops

MaterializeRisks ==
    /\ LET r == materialize_risks(GS)
       IN /\ SetGS(r.state)
          /\ last' = Called("materialize_risks", <<>>, Some(r.materialized))
    /\ ops' = ops

RaiseRisk ==
    /\ ops < MaxMaterializeOps
    /\ \E choice_id \in {"data_up", "access_up", "vendor_up", "all_up"} :
          LET r == apply_choice(exposure_decision, choice_id, GS)
          IN /\ SetGS(r.state)
             /\ last' = [op |-> "apply_choice",
                         args |-> <<exposure_decision.id, choice_id>>,
                         result |-> r.result, step |-> r.step, value |-> r.value]
    /\ ops' = ops + 1

ResolveActive ==
    /\ ops < MaxMaterializeOps
    /\ \E i \in 1..Len(active_incidents) :
          LET r == resolve_incident(GS, active_incidents[i].id, <<"lesson">>)
          IN /\ SetGS(r.state)
             /\ last' = [op |-> "resolve_incident",
                         args |-> <<active_incidents[i].id>>,
                         result |-> r.result, step |-> "done", value |-> None]
    /\ ops' = ops + 1

NextMaterialize == AdvanceTurn \/ MaterializeRisks \/ RaiseRisk \/ ResolveActive

SpecMaterialize == Init /\ [][NextMaterialize]_vars

CountId(incidents, id) ==
    Cardinality({i \in 1..Len(incidents) : incidents[i].id = id})

IsAdvanceTurn == last'.op = "advance_turn" /\ turn' = turn + 1

IsMaterializeRisks == last'.op = "materialize_risks" /\ turn' = turn

\* C14: once the turn is 6 or more with DataExposure above 60 and no
\* "s3_breach" active, advance_turn and materialize_risks create exactly one
\* "s3_breach" incident; while one is active, neither creates another one,
\* whatever the level.
C14_OneS3Breach ==
    [][(IsAdvanceTurn \/ IsMaterializeRisks)
         => /\ (/\ CountId(active_incidents, "s3_breach") = 0
                /\ risk'.vectors["DataExposure"].current_level > Fx(60)
                /\ turn' >= 6)
               => CountId(active_incidents', "s3_breach") = 1
            /\ CountId(active_incidents, "s3_breach") >= 1
               => CountId(active_incidents', "s3_breach")
                    = CountId(active_incidents, "s3_breach")]_vars

\* Scenario E: created at turn 6, still the only one after the advance to
\* turn 7 with the level above 60.
C14_Witness ==
    /\ turn = 7
    /\ last.op = "advance_turn"
    /\ risk.vectors["DataExposure"].current_level > Fx(60)
    /\ CountId(active_incidents, "s3_breach") = 1
    /\ \E i \in 1..Len(active_incidents) :
          /\ active_incidents[i].id = "s3_breach"
          /\ active_incidents[i].turn_detected = 6

DebtIncidentIds == { debt_incident_id(t) : t \in 0..19 }

\* What one run of the four checks did in a step, debt_blocked saying
\* whether an active incident stops the technical debt check.
MaterializationStep(debt_blocked) ==
    LET before == Len(active_incidents)
        added == SubSeq(active_incidents', before + 1, Len(active_incidents'))
        Added(id) == \E i \in 1..Len(added) : added[i].id = id
        Active(id) == \E i \in 1..before : active_incidents[i].id = id
        data == risk'.vectors["DataExposure"]
        access == risk'.vectors["AccessControl"]
        vendor == risk'.vectors["VendorRisk"]
        debt_id == debt_incident_id(turn')
        rules == {"s3_breach", "credential_stuffing", "vendor_breach", debt_id}
    IN /\ Len(active_incidents') >= before
       /\ SubSeq(active_incidents', 1, before) = active_incidents
       /\ Added("s3_breach") <=>
             (data.current_level > Fx(60) /\ turn' > 5 /\ ~Active("s3_breach"))
       /\ Added("credential_stuffing") <=>
             (/\ access.current_level > Fx(50)
              /\ access.mitigation_coverage < Fx(30)
              /\ turn' > 6
              /\ ~Active("credential_stuffing"))
       /\ Added("vendor_breach") <=>
             (vendor.current_level > Fx(40) /\ turn' > 7 /\ ~Active("vendor_breach"))
       /\ Added(debt_id) <=>
             (/\ technical_debt'.total_debt_points > Fx(200)
              /\ turn' % 3 = 0
              /\ ~debt_blocked)
       /\ \A i \in 1..Len(added) :
             LET a == added[i]
             IN /\ a.id \in rules
                /\ \A j \in 1..Len(added) : added[j].id = a.id => j = i
                /\ a.turn_detected = turn'
                /\ a.id = "s3_breach" =>
                     a.severity = "Critical" /\ a.turn_deadline = Some(turn' + 2)
                /\ a.id = "credential_stuffing" =>
                     a.severity = "High" /\ a.turn_deadline = Some(turn' + 3)
                /\ a.id = "vendor_breach" =>
                     a.severity = "High" /\ a.turn_deadline = Some(turn' + 4)
                /\ a.id = debt_id =>
                     a.severity = "Medium" /\ a.root_cause_identified
       /\ IsMaterializeRisks => Len(last'.value[1]) = Len(added)

\* C15 as stated: each of the four checks creates its incident exactly when
\* its condition holds and no incident with its id is active; the list
\* returned holds one string per incident created.
C15_MaterializationById ==
    [][(IsAdvanceTurn \/ IsMaterializeRisks)
         => MaterializationStep(
                CountId(active_incidents, debt_incident_id(turn')) > 0)]_vars

\* C15, amended: as stated for the data exposure, access control and vendor
\* checks; the technical debt check creates "debt_incident_<turn>" exactly
\* when the debt total is above 200, the turn is a multiple of 3 and no
\* active incident has an id that starts with "debt_incident", whatever the
\* turn in that id.
C15_Materialization ==
    [][(IsAdvanceTurn \/ IsMaterializeRisks)
         => MaterializationStep(
                \E i \in 1..Len(active_incidents) :
                    active_incidents[i].id \in DebtIncidentIds)]_vars

\* One call of materialize_risks that created three incidents.
C15_Witness ==
    /\ last.op = "materialize_risks"
    /\ Len(last.value[1]) = 3
    /\ CountId(active_incidents, "s3_breach") = 1
    /\ CountId(active_incidents, "credential_stuffing") = 1
    /\ CountId(active_incidents, "vendor_breach") = 1

-----------------------------------------------------------------------------
(* Incident handling: trigger_incident, escalate_incident_to_board and     *)
(* resolve_incident called in any order as the turns advance.              *)

IncidentInputs(t) ==
    { ActiveIncident("inc_a", sev, t, Some(t + 2), "Detected", sev = "Critical") :
        sev \in IncidentSeverity }
    \cup { ActiveIncident("inc_b", "High", t, None, "Investigating", FALSE) }

IncidentIdInputs == {"inc_a", "inc_b", "no_such_incident"}

TriggerIncidentNow ==
    /\ ops < MaxIncidentOps
    /\ \E incident \in IncidentInputs(turn) :
          /\ SetGS(trigger_incident(GS, incident))
          /\ last' = Called("trigger_incident", <<incident>>, None)
    /\ ops' = ops + 1

EscalateIncident ==
    /\ ops < MaxIncidentOps
    /\ \E incident_id \in IncidentIdInputs :
          LET r == escalate_incident_to_board(GS, incident_id)
          IN /\ SetGS(r.state)
             /\ last' = [op |-> "escalate_incident_to_board", args |-> <<incident_id>>,
                         result |-> r.result, step |-> "done", value |-> None]
    /\ ops' = ops + 1

ResolveIncident ==
    /\ ops < MaxIncidentOps
    /\ \E incident_id \in IncidentIdInputs :
          LET r == resolve_incident(GS, incident_id, <<"lesson">>)
          IN /\ SetGS(r.state)
             /\ last' = [op |-> "resolve_incident", args |-> <<incident_id>>,
                         result |-> r.result, step |-> "done", value |-> None]
    /\ ops' = ops + 1

SevereInconsistency ==
    /\ ops < MaxIncidentOps
    /\ narrative' = NarrativeIntegrity_record_inconsistency(
                        narrative, turn, "inconsistency", Fx(95))
    /\ last' = Called("record_inconsistency", <<Fx(95)>>, None)
    /\ ops' = ops + 1
    /\ UNCHANGED narrativeFrame

AdvanceTurnIncident ==
    /\ turn < MaxIncidentTurn
    /\ \E leaving \in AttritionOutcomes(team) :
       \E rolled \in (IF (turn + 1) % 4 = 0 THEN ThreatRolls ELSE {threat_level}) :
          /\ Departures + Cardinality(leaving) <= MaxDepartures
          /\ SetGS(advance_turn(GS, leaving, rolled))
          /\ last' = Called("advance_turn", <<>>, None)
    /\ ops' = ops

NextIncident ==
    \/ TriggerIncidentNow
    \/ EscalateIncident
    \/ ResolveIncident
    \/ SevereInconsistency
    \/ AdvanceTurnIncident

SpecIncident == Init /\ [][NextIncident]_vars

\* C13: the active incidents never hold two entries with the same id.
C13_UniqueActiveIds ==
    \A i, j \in 1..Len(active_incidents) :
        active_incidents[i].id = active_incidents[j].id => i = j

Demand(severity) ==
    CASE severity = "Critical" -> Fx(8) [] severity = "High" -> Fx(5)
      [] severity = "Medium" -> Fx(3) [] severity = "Low" -> Fx(1)

IsTriggerIncident == last'.op = "trigger_incident" /\ ops' = ops + 1

\* C16: trigger_incident appends the incident to the active incidents in
\* every state; it asks for 8/5/3/1 capacity for Critical/High/Medium/Low,
\* committed_capacity grows by that exactly when the available capacity is
\* at least that, and otherwise it is unchanged and a warning event follows
\* the detection event.
C16_TriggerNeverRejects ==
    [][IsTriggerIncident
         => LET incident == last'.args[1]
                demand == Demand(incident.severity)
                available == team.total_capacity - team.committed_capacity
                n == Len(events)
            IN /\ active_incidents' = Append(active_incidents, incident)
               /\ events'[n + 1].event_type = "IncidentDetected"
               /\ SubSeq(events', 1, n) = events
               /\ IF available >= demand
                  THEN /\ team'.committed_capacity = team.committed_capacity + demand
                       /\ Len(events') = n + 1
                  ELSE /\ team'.committed_capacity = team.committed_capacity
                       /\ Len(events') = n + 2
                       /\ events'[n + 2].event_type = "IncidentDetected"
                       /\ events'[n + 2].description = "WARNING: insufficient capacity"
               /\ team'.total_capacity = team.total_capacity]_vars

\* A Critical incident accepted with 6 of capacity available.
C16_Witness ==
    /\ last.op = "trigger_incident"
    /\ last.args[1].severity = "Critical"
    /\ active_incidents[Len(active_incidents)] = last.args[1]
    /\ events[Len(events)].description = "WARNING: insufficient capacity"
    /\ team.committed_capacity = Fx(12)
    /\ team.total_capacity = Fx(18)

IsEscalate == last'.op = "escalate_incident_to_board" /\ ops' = ops + 1

Escalations(incident) ==
    Cardinality({k \in 1..Len(incident.timeline) :
                    incident.timeline[k].action = "escalated"})

FirstWithId(incidents, id) ==
    CHOOSE i \in 1..Len(incidents) :
        /\ incidents[i].id = id
        /\ \A j \in 1..(i - 1) : incidents[j].id # id

\* C17: escalate_incident_to_board returns InvalidAction when no active
\* incident has the id or when the incident with the id is already
\* escalated, and then changes nothing in the game state; no active incident
\* is ever escalated twice.
C17_EscalateRejects ==
    [][/\ IsEscalate =>
            LET incident_id == last'.args[1]
                known == CountId(active_incidents, incident_id) > 0
                rejected == \/ ~known
                            \/ active_incidents[FirstWithId(active_incidents,
                                                            incident_id)].escalated_to_board
            IN rejected => (last'.result = "InvalidAction" /\ UNCHANGED gameVars)
       /\ \A i \in 1..Len(active_incidents') :
             Escalations(active_incidents'[i]) <= 1]_vars

\* A second escalation of the same incident, rejected.
C17_Witness ==
    /\ last.op = "escalate_incident_to_board"
    /\ last.result = "InvalidAction"
    /\ \E i \in 1..Len(active_incidents) :
          /\ active_incidents[i].id = last.args[1]
          /\ active_incidents[i].escalated_to_board
          /\ Escalations(active_incidents[i]) = 1

\* What a successful escalation does in a step, floored saying whether the
\* narrative score of a late escalation stops at 0.
EscalationStep(floored) ==
    LET incident_id == last'.args[1]
        k == FirstWithId(active_incidents, incident_id)
        before == active_incidents[k]
        after == active_incidents'[k]
        delay == turn - before.turn_detected
        n == Len(events)
        lowered == narrative.score - 5 * Fx(delay)
    IN /\ IF delay <= 1
          THEN /\ political_capital'.total =
                    (IF political_capital.total + Fx(5) > Fx(100)
                     THEN Fx(100) ELSE political_capital.total + Fx(5))
               /\ narrative' = narrative
          ELSE /\ political_capital'.total =
                    (IF political_capital.total - Fx(10) < 0
                     THEN 0 ELSE political_capital.total - Fx(10))
               /\ Len(narrative'.delayed_escalations)
                    = Len(narrative.delayed_escalations) + 1
               /\ narrative'.score = IF floored /\ lowered < 0 THEN 0 ELSE lowered
       /\ Len(events') = n + 1
       /\ SubSeq(events', 1, n) = events
       /\ events'[n + 1].event_type = "IncidentEscalated"
       /\ events'[n + 1].visibility = "Board"
       /\ Len(active_incidents') = Len(active_incidents)
       /\ \A i \in 1..Len(active_incidents) :
             i # k => active_incidents'[i] = active_incidents[i]
       /\ after.escalated_to_board
       /\ after.escalation_turn = Some(turn)
       /\ Len(after.timeline) = Len(before.timeline) + 1
       /\ SubSeq(after.timeline, 1, Len(before.timeline)) = before.timeline

\* C18 as stated: a late escalation lowers the narrative score by
\* 5 * (turn - turn_detected).
C18_EscalationUnfloored ==
    [][(IsEscalate /\ last'.result = "Ok") => EscalationStep(FALSE)]_vars

\* C18, amended: a successful escalation is timely exactly when
\* turn - turn_detected <= 1; timely adds 5 to political capital, capped at
\* 100, and leaves the narrative unchanged; late takes 10 off political
\* capital, floored at 0, appends one DelayedEscalation and lowers the score
\* by 5 * (turn - turn_detected), the result floored at 0. Either way one
\* IncidentEscalated event with Board visibility is appended and the
\* incident gets escalated_to_board, escalation_turn = turn and one more
\* timeline entry.
C18_Escalation ==
    [][(IsEscalate /\ last'.result = "Ok") => EscalationStep(TRUE)]_vars

\* A late escalation whose penalty is larger than the score left.
C18_Witness ==
    /\ last.op = "escalate_incident_to_board"
    /\ last.result = "Ok"
    /\ Len(narrative.delayed_escalations) = 1
    /\ narrative.score = 0
    /\ \E i \in 1..Len(active_incidents) :
          /\ active_incidents[i].escalated_to_board
          /\ active_incidents[i].escalation_turn = Some(turn)
          /\ turn - active_incidents[i].turn_detected = 2

IsResolve == last'.op = "resolve_incident" /\ ops' = ops + 1

Detections(log) ==
    Cardinality({i \in 1..Len(log) :
                    /\ log[i].event_type = "IncidentDetected"
                    /\ log[i].description # "WARNING: insufficient capacity"})

\* C19: resolve_incident with the id of an active incident removes that
\* incident and no other, appends one ResolvedIncident with
\* original_incident the id and time_to_resolve = turn - turn_detected, and
\* one IncidentResolved event; with an unknown id it returns InvalidAction
\* and changes nothing. Active plus resolved incidents always number the
\* incidents triggered.
C19_ResolveMovesOne ==
    [][/\ IsResolve =>
            LET incident_id == last'.args[1]
                n == Len(events)
                m == Len(resolved_incidents)
            IN IF CountId(active_incidents, incident_id) = 0
               THEN last'.result = "InvalidAction" /\ UNCHANGED gameVars
               ELSE LET k == FirstWithId(active_incidents, incident_id)
                    IN /\ last'.result = "Ok"
                       /\ active_incidents' =
                            SubSeq(active_incidents, 1, k - 1)
                              \o SubSeq(active_incidents, k + 1, Len(active_incidents))
                       /\ Len(resolved_incidents') = m + 1
                       /\ SubSeq(resolved_incidents', 1, m) = resolved_incidents
                       /\ resolved_incidents'[m + 1].original_incident = incident_id
                       /\ resolved_incidents'[m + 1].time_to_resolve
                            = turn - active_incidents[k].turn_detected
                       /\ Len(events') = n + 1
                       /\ SubSeq(events', 1, n) = events
                       /\ events'[n + 1].event_type = "IncidentResolved"
       /\ Len(active_incidents') + Len(resolved_incidents') = Detections(events')]_vars

\* One of two active incidents with the same id resolved, the other left.
C19_Witness ==
    /\ last.op = "resolve_incident"
    /\ last.result = "Ok"
    /\ Len(resolved_incidents) = 1
    /\ Len(active_incidents) = 1
    /\ active_incidents[1].id = last.args[1]
    /\ resolved_incidents[1].original_incident = last.args[1]

\* C20: every successful resolve_incident raises budget.spent and lowers
\* emergency_reserve by the final_cost of the incident's severity (Critical
\* 0.5, High 0.2, Medium 0.05, Low 0.01), the value the ResolvedIncident
\* records.
C20_ResolutionCostSpent ==
    [][(IsResolve /\ last'.result = "Ok")
         => LET k == FirstWithId(active_incidents, last'.args[1])
                severity == active_incidents[k].severity
                cost == CASE severity = "Critical" -> 50 [] severity = "High" -> 20
                          [] severity = "Medium" -> 5 [] severity = "Low" -> 1
            IN /\ resolved_incidents'[Len(resolved_incidents')].final_cost = cost
               /\ budget'.spent = budget.spent + cost
               /\ budget'.emergency_reserve = budget.emergency_reserve - cost]_vars

-----------------------------------------------------------------------------
(* The whole engine over a full game: the turns advance from               *)
(* GameState::new past the last turn while choices, impacts and incident   *)
(* operations are interleaved.                                             *)

capital_decision ==
    [id |-> "capital",
     choices |-> <<
        Plain("spend_50", [DecisionImpact_new("spend_50") EXCEPT
                              !.political_capital_cost = Fx(50)]),
        Plain("gain_60", [DecisionImpact_new("gain_60") EXCEPT
                             !.political_capital_gain = Fx(60)]) >>]

delay_impact ==
    [DecisionImpact_new("delay") EXCEPT
        !.political_capital_cost = Fx(20),
        !.narrative_impact = Some(NarrativeImpact(Fx(5), FALSE, None,
                                                  Some(<<"inc_a", 2>>), "contain first"))]

\* The impacts handed to apply_decision_impact on turn t; turn - delay_turns
\* is a u32 subtraction, so a delay is only handed over from turn 2 on.
GameImpacts(t) ==
    {optimistic_commitment_impact} \cup (IF t >= 2 THEN {delay_impact} ELSE {})

GameIncident(t) == ActiveIncident("inc_a", "High", t, Some(t + 2), "Detected", FALSE)

GameAdvanceTurn ==
    /\ turn < MaxGameTurn
    /\ \E leaving \in AttritionOutcomes(team) :
       \E rolled \in (IF (turn + 1) % 4 = 0 THEN ThreatRolls ELSE {threat_level}) :
          /\ Departures + Cardinality(leaving) <= MaxDepartures
          /\ SetGS(advance_turn(GS, leaving, rolled))
          /\ last' = Called("advance_turn", <<>>, None)
    /\ ops' = ops

GameApplyChoice ==
    /\ ops < MaxGameOps
    /\ \E choice_id \in {"spend_50", "gain_60"} :
          LET r == apply_choice(capital_decision, choice_id, GS)
          IN /\ SetGS(r.state)
             /\ last' = [op |-> "apply_choice",
                         args |-> <<capital_decision.id, choice_id>>,
                         result |-> r.result, step |-> r.step, value |-> r.value]
    /\ ops' = ops + 1

GameApplyDecisionImpact ==
    /\ ops < MaxGameOps
    /\ \E impact \in GameImpacts(turn) :
          /\ SetGS(apply_decision_impact(GS, impact))
          /\ last' = Called("apply_decision_impact", <<impact.decision_id>>, None)
    /\ ops' = ops + 1

GameTriggerIncident ==
    /\ ops < MaxGameOps
    /\ SetGS(trigger_incident(GS, GameIncident(turn)))
    /\ last' = Called("trigger_incident", <<GameIncident(turn)>>, None)
    /\ ops' = ops + 1

GameMaterializeRisks ==
    /\ ops < MaxGameOps
    /\ LET r == materialize_risks(GS)
       IN /\ SetGS(r.state)
          /\ last' = Called("materialize_risks", <<>>, Some(r.materialized))
    /\ ops' = ops + 1

GameEscalate ==
    /\ ops < MaxGameOps
    /\ \E i \in 1..Len(active_incidents) :
          LET r == escalate_incident_to_board(GS, active_incidents[i].id)
          IN /\ SetGS(r.state)
             /\ last' = [op |-> "escalate_incident_to_board",
                         args |-> <<active_incidents[i].id>>,
                         result |-> r.result, step |-> "done", value |-> None]
    /\ ops' = ops + 1

GameResolve ==
    /\ ops < MaxGameOps
    /\ \E i \in 1..Len(active_incidents) :
          LET r == resolve_incident(GS, active_incidents[i].id, <<"lesson">>)
          IN /\ SetGS(r.state)
             /\ last' = [op |-> "resolve_incident",
                         args |-> <<active_incidents[i].id>>,
                         result |-> r.result, step |-> "done", value |-> None]
    /\ ops' = ops + 1

NextGame ==
    \/ GameAdvanceTurn
    \/ GameApplyChoice
    \/ GameApplyDecisionImpact
    \/ GameTriggerIncident
    \/ GameMaterializeRisks
    \/ GameEscalate
    \/ GameResolve

SpecGame == Init /\ [][NextGame]_vars

Endings == {"GoldenCISO", "LawsuitSurvivor", "PostBreachCleanup",
            "CriminalInvestigation"}

\* In the full game every operation but advance_turn counts as an operation.
IsGameAdvance == ops' = ops

PhaseName(t) ==
    IF t \in 1..3 THEN "InheritanceDisaster"
    ELSE IF t \in 4..12 THEN "OperationalTempo"
    ELSE IF t \in 13..16 THEN "Discovery"
    ELSE "Ended"

\* C21: each advance_turn adds exactly 1 to the turn and sets the phase from
\* the new turn (InheritanceDisaster 1-3, OperationalTempo 4-12, Discovery
\* 13-16, Ended with an ending above 16); no other operation changes the turn
\* or the phase; so the phase is Ended exactly from turn 17 on, the turn the
\* 16th advance_turn reaches, and stays Ended under later advance_turns.
C21_TurnAndPhase ==
    /\ [](/\ phase[1] = PhaseName(turn)
          /\ phase[1] = "Ended" <=> turn >= 17)
    /\ [][/\ IsGameAdvance
             => /\ turn' = turn + 1
                /\ phase'[1] = PhaseName(turn')
                /\ Len(phase') = (IF turn' > 16 THEN 2 ELSE 1)
                /\ turn' > 16 => phase'[2] \in Endings
                /\ phase[1] = "Ended" => phase'[1] = "Ended"
          /\ ~IsGameAdvance => turn' = turn /\ phase' = phase]_vars

\* The 17th advance_turn ran on a game that was already over, after an
\* operation was interleaved on the way.
C21_Witness ==
    /\ turn = 18
    /\ last.op = "advance_turn"
    /\ ops = 1
    /\ phase[1] = "Ended"

CountEvents(log, event_type) ==
    Cardinality({i \in 1..Len(log) : log[i].event_type = event_type})

\* C22: advance_turn runs the quarterly review exactly when the new turn is
\* a multiple of 4; the review adds 1 to quarter and leaves both quarterly
\* political-capital counters at zero; no other operation changes quarter,
\* and quarter = 1 + floor(turn / 4) in every state reached from a fresh one.
C22_QuarterlyReview ==
    /\ [](quarter = 1 + (turn \div 4))
    /\ [][/\ (IsGameAdvance /\ turn' % 4 = 0)
             => /\ quarter' = quarter + 1
                /\ political_capital'.earned_this_quarter = 0
                /\ political_capital'.spent_this_quarter = 0
                /\ CountEvents(events', "QuarterEnd") = CountEvents(events, "QuarterEnd") + 1
                /\ CountEvents(events', "BoardReview") = CountEvents(events, "BoardReview") + 1
          /\ (IsGameAdvance /\ turn' % 4 # 0)
             => /\ quarter' = quarter
                /\ political_capital'.earned_this_quarter
                     = political_capital.earned_this_quarter
                /\ political_capital'.spent_this_quarter
                     = political_capital.spent_this_quarter
                /\ CountEvents(events', "QuarterEnd") = CountEvents(events, "QuarterEnd")
                /\ CountEvents(events', "BoardReview") = CountEvents(events, "BoardReview")
          /\ ~IsGameAdvance
             => /\ quarter' = quarter
                /\ CountEvents(events', "QuarterEnd") = CountEvents(events, "QuarterEnd")]_vars

\* The first review came after a choice that earned 60 in the quarter: the
\* counter is back at zero and the total (100 after the choice) lost 15 for
\* the one critical objective that is behind.
C22_Witness ==
    /\ turn = 4
    /\ quarter = 2
    /\ last.op = "advance_turn"
    /\ decisions_made = <<"capital">>
    /\ political_capital.total = Fx(85)
    /\ political_capital.earned_this_quarter = 0

-----------------------------------------------------------------------------
(* The quarterly review on objectives of every kind: the game starts with  *)
(* two objectives and a political capital drawn from the values on both    *)
(* sides of the tests of the review, and the turns advance over two        *)
(* reviews.                                                                *)

ReviewObjectives ==
    { [id |-> "objective", assigned_quarter |-> 1, priority |-> priority,
       progress |-> progress, completion_turn |-> completion_turn,
       assigned_by |-> "CEO"] :
        priority \in {"Critical", "High"},
        progress \in {0, Fx(50) - 1, Fx(50), Fx(100)},
        completion_turn \in {None, Some(1)} }

ReviewCapitals == {Fx(10), Fx(95)}

InitReview ==
    /\ turn = GameState_new.turn
    /\ quarter = GameState_new.quarter
    /\ phase = GameState_new.phase
    /\ risk = GameState_new.risk
    /\ business = GameState_new.business
    /\ narrative = GameState_new.narrative
    /\ budget = GameState_new.budget
    /\ \E total \in ReviewCapitals :
          political_capital = [GameState_new.political_capital EXCEPT !.total = total]
    /\ team = GameState_new.team
    /\ compliance = GameState_new.compliance
    /\ reputation = GameState_new.reputation
    /\ board = GameState_new.board
    /\ events = GameState_new.events
    /\ decisions_made = GameState_new.decisions_made
    /\ active_incidents = GameState_new.active_incidents
    /\ resolved_incidents = GameState_new.resolved_incidents
    /\ \E first \in ReviewObjectives, second \in ReviewObjectives :
          /\ second.completion_turn = None
          /\ quarterly_objectives = <<first, second>>
    /\ technical_debt = GameState_new.technical_debt
    /\ threat_level = GameState_new.threat_level
    /\ last = [op |-> "new", args |-> <<>>, result |-> "Ok", step |-> "done",
               value |-> None]
    /\ ops = 0

ReviewAdvanceTurn ==
    /\ turn < MaxReviewTurn
    /\ \E leaving \in AttritionOutcomes(team) :
       \E rolled \in (IF (turn + 1) % 4 = 0 THEN ThreatRolls ELSE {threat_level}) :
          /\ Departures + Cardinality(leaving) <= MaxDepartures
          /\ SetGS(advance_turn(GS, leaving, rolled))
          /\ last' = Called("advance_turn", <<>>, None)
    /\ ops' = ops

NextReview == ReviewAdvanceTurn

SpecReview == InitReview /\ [][NextReview]_vars

ObjectivesMet(objectives) ==
    {i \in 1..Len(objectives) :
        objectives[i].progress >= Fx(100) /\ objectives[i].completion_turn = None}

CriticalMissed(objectives) ==
    {i \in 1..Len(objectives) :
        /\ i \notin ObjectivesMet(objectives)
        /\ objectives[i].priority = "Critical"
        /\ objectives[i].progress < Fx(50)}

\* C23: in a review an objective counts as met exactly when progress >= 100
\* and completion_turn is unset, and it is then stamped with the turn; it
\* is a critical miss exactly when it is not met, Critical and below 50.
\* With at least one objective met the total grows by 10 per objective met,
\* capped at 100, and no penalty is applied; otherwise it shrinks by 15 per
\* critical miss, floored at 0.
C23_ReviewObjectives ==
    [][turn' % 4 = 0
         => LET met == ObjectivesMet(quarterly_objectives)
                missed == CriticalMissed(quarterly_objectives)
            IN /\ Len(quarterly_objectives') = Len(quarterly_objectives) + 1
               /\ \A i \in 1..Len(quarterly_objectives) :
                     quarterly_objectives'[i] =
                        IF i \in met
                        THEN [quarterly_objectives[i] EXCEPT
                                 !.completion_turn = Some(turn')]
                        ELSE quarterly_objectives[i]
               /\ ObjectivesMet(quarterly_objectives') = {}
               /\ political_capital'.total =
                     IF met # {}
                     THEN Min2(political_capital.total + Cardinality(met) * Fx(10),
                               Fx(100))
                     ELSE Max2(political_capital.total
                                 - Cardinality(missed) * Fx(15), 0)]_vars

\* The first review met one objective while a critical one was behind (95
\* grew to the cap, no penalty); the second review met none, the stamped
\* objective was not counted again, and the critical miss cost 15.
C23_Witness ==
    /\ turn = 8
    /\ last.op = "advance_turn"
    /\ quarterly_objectives[1].progress = Fx(100)
    /\ quarterly_objectives[1].completion_turn = Some(4)
    /\ quarterly_objectives[2].priority = "Critical"
    /\ quarterly_objectives[2].progress = 0
    /\ political_capital.total = Fx(85)

\* C24: the event log is append-only: under every engine operation the log
\* before is a prefix of the log after, every event appended carries the
\* turn current when it was appended (the new turn inside advance_turn), and
\* the turns of the events never decrease along the log.
C24_AppendOnlyLog ==
    /\ [](\A i, j \in 1..Len(events) : i <= j => events[i].turn <= events[j].turn)
    /\ [][/\ Len(events') >= Len(events)
          /\ SubSeq(events', 1, Len(events)) = events
          /\ \A i \in (Len(events) + 1)..Len(events') : events'[i].turn = turn']_vars

\* A log written by several operations over several turns: the start, a
\* decision, a departure and the first review.
C24_Witness ==
    /\ turn = 5
    /\ events[1].event_type = "GameStart"
    /\ CountEvents(events, "DecisionMade") = 1
    /\ CountEvents(events, "TeamMemberDeparted") = 1
    /\ CountEvents(events, "BoardReview") = 1
    /\ events[Len(events)].turn = 4

-----------------------------------------------------------------------------
(* Team morale: advance_turn and resolve_incident called in any order on a *)
(* game in which trigger_incident has reported some incidents on turn 1.   *)

backlog_incident_id(k) ==
    CASE k = 1 -> "backlog_1"
      [] k = 2 -> "backlog_2"
      [] k = 3 -> "backlog_3"
      [] k = 4 -> "backlog_4"
      [] k = 5 -> "backlog_5"
      [] k = 6 -> "backlog_6"
      [] OTHER -> "backlog_n"

\* GameState::new followed by n calls of trigger_incident.
RECURSIVE Backlog(_)
Backlog(n) ==
    IF n = 0 THEN GameState_new
    ELSE trigger_incident(Backlog(n - 1),
                          ActiveIncident(backlog_incident_id(n), "Low", 1, None,
                                         "Detected", FALSE))

InitMorale ==
    /\ \E n \in {0, MaxMoraleIncidents} : \E s \in {Backlog(n)} : 
          /\ turn = s.turn
          /\ quarter = s.quarter
          /\ phase = s.phase
          /\ risk = s.risk
          /\ business = s.business
          /\ narrative = s.narrative
          /\ budget = s.budget
          /\ political_capital = s.political_capital
          /\ team = s.team
          /\ compliance = s.compliance
          /\ reputation = s.reputation
          /\ board = s.board
          /\ events = s.events
          /\ decisions_made = s.decisions_made
          /\ active_incidents = s.active_incidents
          /\ resolved_incidents = s.resolved_incidents
          /\ quarterly_objectives = s.quarterly_objectives
          /\ technical_debt = s.technical_debt
          /\ threat_level = s.threat_level
    /\ last = [op |-> "new", args |-> <<>>, result |-> "Ok", step |-> "done",
               value |-> None]
    /\ ops = 0

MoraleAdvanceTurn ==
    /\ turn < MaxMoraleTurn
    /\ \E leaving \in AttritionOutcomes(team) :
       \E rolled \in (IF (turn + 1) % 4 = 0 THEN ThreatRolls ELSE {threat_level}) :
          /\ SetGS(advance_turn(GS, leaving, rolled))
          /\ last' = Called("advance_turn", <<>>, None)
    /\ ops' = ops

\* resolve_incident on the incident reported first among the active ones.
MoraleResolve ==
    /\ active_incidents # <<>>
    /\ LET r == resolve_incident(GS, active_incidents[1].id, <<"lesson">>)
       IN /\ SetGS(r.state)
          /\ last' = [op |-> "resolve_incident",
                      args |-> <<active_incidents[1].id>>,
                      result |-> r.result, step |-> "done", value |-> None]
    /\ ops' = ops + 1

NextMorale == MoraleAdvanceTurn \/ MoraleResolve

SpecMorale == InitMorale /\ [][NextMorale]_vars

\* C25: team morale stays within [0,100] under any interleaving of
\* advance_turn, with any outcome of the attrition rolls, and
\* resolve_incident, fast or slow.
C25_MoraleWithinBounds == 0 <= team.morale /\ team.morale <= Fx(100)

-----------------------------------------------------------------------------
(* Political capital: choices that spend and earn it, escalations, timely  *)
(* and late, and the first quarterly review.                               *)

CapitalApplyChoice ==
    /\ ops < MaxCapitalOps
    /\ \E choice_id \in {"spend_50", "gain_60"} :
          LET r == apply_choice(capital_decision, choice_id, GS)
          IN /\ SetGS(r.state)
             /\ last' = [op |-> "apply_choice",
                         args |-> <<capital_decision.id, choice_id>>,
                         result |-> r.result, step |-> r.step, value |-> r.value]
    /\ ops' = ops + 1

CapitalTriggerIncident ==
    /\ ops < MaxCapitalOps
    /\ SetGS(trigger_incident(GS, GameIncident(turn)))
    /\ last' = Called("trigger_incident", <<GameIncident(turn)>>, None)
    /\ ops' = ops + 1

CapitalEscalate ==
    /\ ops < MaxCapitalOps
    /\ LET r == escalate_incident_to_board(GS, "inc_a")
       IN /\ SetGS(r.state)
          /\ last' = [op |-> "escalate_incident_to_board", args |-> <<"inc_a">>,
                      result |-> r.result, step |-> "done", value |-> None]
    /\ ops' = ops + 1

CapitalAdvanceTurn ==
    /\ turn < MaxCapitalTurn
    /\ \E leaving \in AttritionOutcomes(team) :
       \E rolled \in (IF (turn + 1) % 4 = 0 THEN ThreatRolls ELSE {threat_level}) :
          /\ Departures + Cardinality(leaving) <= MaxDepartures
          /\ SetGS(advance_turn(GS, leaving, rolled))
          /\ last' = Called("advance_turn", <<>>, None)
    /\ ops' = ops

NextCapital ==
    \/ CapitalApplyChoice
    \/ CapitalTriggerIncident
    \/ CapitalEscalate
    \/ CapitalAdvanceTurn

SpecCapital == Init /\ [][NextCapital]_vars

\* C26: the political capital total stays within [0,100] under any sequence
\* of apply_choice (spending and earning), escalate_incident_to_board (timely
\* and late) and quarterly reviews, the direct writes of the total included.
C26_CapitalWithinBounds ==
    0 <= political_capital.total /\ political_capital.total <= Fx(100)

\* A late escalation wrote the total directly when it was below the penalty
\* of 10: a choice had spent the whole total before.
C26_Witness ==
    /\ last.op = "escalate_incident_to_board"
    /\ last.result = "Ok"
    /\ Len(narrative.delayed_escalations) = 1
    /\ political_capital.spent_this_quarter = Fx(50)
    /\ political_capital.total = 0

-----------------------------------------------------------------------------
(* lib.rs: GamePersistence.  The game advances and is saved; a save can be *)
(* followed by a load through the same GamePersistence instance.           *)

\* bincode::serialize writes the fields of GameState in the order of their
\* declaration; player.reputation stands for the player.
bincode_serialize(s) ==
    << s.reputation, s.turn, s.quarter, s.risk, s.business, s.narrative,
       s.budget, s.political_capital, s.team, s.compliance, s.threat_level,
       s.board, s.events, s.decisions_made, s.active_incidents,
       s.resolved_incidents, s.phase, s.quarterly_objectives, s.technical_debt >>

\* bincode::deserialize reads them back in the same order.
bincode_deserialize(bytes) ==
    [reputation |-> bytes[1], turn |-> bytes[2], quarter |-> bytes[3],
     risk |-> bytes[4], business |-> bytes[5], narrative |-> bytes[6],
     budget |-> bytes[7], political_capital |-> bytes[8], team |-> bytes[9],
     compliance |-> bytes[10], threat_level |-> bytes[11], board |-> bytes[12],
     events |-> bytes[13], decisions_made |-> bytes[14],
     active_incidents |-> bytes[15], resolved_incidents |-> bytes[16],
     phase |-> bytes[17], quarterly_objectives |-> bytes[18],
     technical_debt |-> bytes[19]]

\* The keys GamePersistence::new can derive: the salt is drawn at random.
PersistenceKeys == {"key_1", "key_2"}

\* The values CounterNonceSequence::new can draw from rng.next_u64().
NonceDraws == {11, 12}

\* AES-256-GCM: seal_in_place_append_tag gives the data sealed under the key
\* and the nonce; the nonce is not part of the output.
encrypt(key, nonce, data) == [sealed_key |-> key, sealed_nonce |-> nonce, data |-> data]

\* open_in_place succeeds only under the key and the nonce of the sealing.
decrypt(key, nonce, encrypted) ==
    IF encrypted.sealed_key = key /\ encrypted.sealed_nonce = nonce
    THEN [result |-> "Ok", data |-> Some(encrypted.data)]
    ELSE [result |-> "StateCorruption", data |-> None]

\* save: serialize, encrypt with a fresh CounterNonceSequence, write.
save(key, nonce, s) == encrypt(key, nonce, bincode_serialize(s))

\* load: read, decrypt with a fresh CounterNonceSequence, deserialize.
load(key, nonce, file) ==
    LET decrypted == decrypt(key, nonce, file)
    IN IF decrypted.result = "Ok"
       THEN [result |-> "Ok", state |-> Some(bincode_deserialize(decrypted.data[1]))]
       ELSE [result |-> decrypted.result, state |-> None]

PersistenceAdvanceTurn ==
    /\ turn < MaxPersistenceTurn
    /\ \E leaving \in AttritionOutcomes(team) :
       \E rolled \in (IF (turn + 1) % 4 = 0 THEN ThreatRolls ELSE {threat_level}) :
          /\ SetGS(advance_turn(GS, leaving, rolled))
          /\ last' = Called("advance_turn", <<>>, None)
    /\ ops' = ops

\* p = GamePersistence::new(password); p.save(&state, path): last holds the
\* key of p and the file written.
Save ==
    /\ last.op \notin {"save", "load"}
    /\ \E key \in PersistenceKeys, nonce \in NonceDraws :
          last' = [op |-> "save", args |-> <<key>>, result |-> "Ok",
                   step |-> "done", value |-> Some(save(key, nonce, GS))]
    /\ ops' = ops
    /\ UNCHANGED gameVars

\* p.load(path), right after p.save: the key is the one of p, the nonce is
\* drawn again.
Load ==
    /\ last.op = "save"
    /\ \E nonce \in NonceDraws :
          LET r == load(last.args[1], nonce, last.value[1])
          IN last' = [op |-> "load", args |-> last.args, result |-> r.result,
                      step |-> "done", value |-> r.state]
    /\ ops' = ops
    /\ UNCHANGED gameVars

NextPersistence == PersistenceAdvanceTurn \/ Save \/ Load

SpecPersistence == Init /\ [][NextPersistence]_vars

\* C27: p.save(s, path) followed by p.load(path) succeeds and returns a state
\* equal to s field for field.
C27_RoundTrip ==
    last.op = "load" => last.result = "Ok" /\ last.value = Some(GS)

-----------------------------------------------------------------------------
(* Claims about GameState::new, checked under SpecGame: last.op is "new"   *)
(* in the state the constructor leaves and in no other.                    *)

\* C28: a fresh GameState has turn 1, quarter 1, phase InheritanceDisaster,
\* narrative score 100, budget.available() = 2.5 - 0.8 = 1.7, no active or
\* resolved incident, an empty decision history and exactly one event,
\* GameStart with turn 0.
C28_FreshState ==
    last.op = "new"
      => /\ turn = 1
         /\ quarter = 1
         /\ phase = <<"InheritanceDisaster">>
         /\ narrative.score = Fx(100)
         /\ Budget_available(budget) = 250 - 80
         /\ Budget_available(budget) = 170
         /\ active_incidents = <<>>
         /\ resolved_incidents = <<>>
         /\ decisions_made = <<>>
         /\ Len(events) = 1
         /\ events[1].event_type = "GameStart"
         /\ events[1].turn = 0

\* The state GameState::new leaves, before any operation.
C28_Witness ==
    /\ last.op = "new"
    /\ ops = 0
    /\ events = <<GameStartEvent>>

-----------------------------------------------------------------------------
(* Claims about RiskLevel::apply_delta and apply_decay, checked under      *)
(* SpecRisk.                                                               *)

IsRiskApplyDelta == ops' = ops + 1 /\ last'.op = "risk_apply_delta"

\* C29: apply_delta on a fresh RiskLevel sets the current_level of every
\* vector the delta names to its level_delta, for a level_delta within
\* [0,100]; on any RiskLevel it changes only the vectors the delta names:
\* the other vectors keep level, mitigation, trend and time_to_critical, and
\* total_exposure and cascade_multiplier are not changed.
C29_ApplyDeltaFrame ==
    [][IsRiskApplyDelta
         => LET changes == last'.args[1].changes
            IN /\ \A v \in RiskVector \ DOMAIN changes :
                     risk'.vectors[v] = risk.vectors[v]
               /\ risk'.total_exposure = risk.total_exposure
               /\ risk'.cascade_multiplier = risk.cascade_multiplier
               /\ risk'.risk_velocity = risk.risk_velocity
               /\ DOMAIN risk'.vectors = DOMAIN risk.vectors
               /\ risk = RiskLevel_new
                    => \A v \in DOMAIN changes :
                          (0 <= changes[v].level_delta /\ changes[v].level_delta <= Fx(100))
                             => risk'.vectors[v].current_level = changes[v].level_delta]_vars

\* Scenario B: the delta naming DataExposure with level 10 applied to a
\* fresh RiskLevel; the other seven vectors are as RiskMetric::new left them.
C29_Witness ==
    /\ ops = 1
    /\ last.op = "risk_apply_delta"
    /\ DOMAIN last.args[1].changes = {"DataExposure"}
    /\ risk.vectors["DataExposure"].current_level = Fx(10)
    /\ \A v \in RiskVector \ {"DataExposure"} : risk.vectors[v] = RiskMetric_new
    /\ risk.total_exposure = 0

\* A call of apply_decay; last'.value holds the RiskLevel the call found.
IsRiskApplyDecay == ops' = ops + 1 /\ last'.op = "risk_apply_decay"

\* C30: apply_decay multiplies the mitigation_coverage of every vector by
\* 0.95 on each call, so two calls in immediate succession leave 0.9025 of
\* it (within the rounding to hundredths, and neither 0.90 nor 0.95 of it);
\* a call multiplies the current_level of CloudMisconfiguration and APIAbuse
\* by 1.02, capped at 100, and sets their trend to 2; the level and the trend
\* of the other six vectors are unchanged.
C30_DecayCompounds ==
    [][IsRiskApplyDecay
         => /\ \A v \in RiskVector :
                 /\ risk'.vectors[v].mitigation_coverage
                      = (risk.vectors[v].mitigation_coverage * 95) \div 100
                 /\ IF v \in {"CloudMisconfiguration", "APIAbuse"}
                    THEN /\ risk'.vectors[v].current_level
                              = Min2((risk.vectors[v].current_level * 102) \div 100,
                                     Fx(100))
                         /\ risk'.vectors[v].trend = Fx(2)
                    ELSE /\ risk'.vectors[v].current_level = risk.vectors[v].current_level
                         /\ risk'.vectors[v].trend = risk.vectors[v].trend
            /\ last.op = "risk_apply_decay"
                 => \A v \in RiskVector :
                       LET before == last.value[1].vectors[v].mitigation_coverage
                           after == risk'.vectors[v].mitigation_coverage
                       IN /\ after * 10000 <= before * 9025
                          /\ before * 9025 - after * 10000 < 2 * 10000
                          /\ before >= Fx(10)
                               => /\ after > (before * 90) \div 100
                                  /\ after < (before * 95) \div 100]_vars

\* Two calls in succession on a coverage of 50: 47.5 after the first call,
\* 45.12 (45.125 cut to hundredths) after the second.
C30_Witness ==
    /\ ops = 3
    /\ last.op = "risk_apply_decay"
    /\ last.value[1].vectors["AccessControl"].mitigation_coverage = 4750
    /\ risk.vectors["AccessControl"].mitigation_coverage = 4512
    /\ risk.vectors["AccessControl"].current_level = Fx(65)

-----------------------------------------------------------------------------
(* Claim about RiskLevel::calculate_cascade_effects, checked under         *)
(* SpecRisk.                                                               *)

IsRiskCascade == ops' = ops + 1 /\ last'.op = "risk_calculate_cascade_effects"

\* The sum over the eight vectors of level x (1 - coverage/100), times the
\* multiplier m (150 is 1.5), in hundredths.
ExposureOf(r, m) ==
    LET term == [v \in RiskVector |->
                    (r.vectors[v].current_level
                       * (Fx(100) - r.vectors[v].mitigation_coverage)) \div Fx(100)]
    IN (SumOver(term, RiskVector) * m) \div 100

\* C31: after every calculate_cascade_effects, cascade_multiplier is 1.5 if
\* the mitigation_coverage of Detection is below 40 and 1.0 otherwise, and
\* total_exposure is the sum over the eight vectors of
\* current_level x (1 - mitigation_coverage/100), on the levels left by the
\* access-control (x1.2) and vendor (x1.15) amplifications of that call,
\* times cascade_multiplier; total_exposure is never negative, and on the
\* same vectors it is not smaller with multiplier 1.5 than with 1.0.
C31_CascadeExposure ==
    /\ [](risk.total_exposure >= 0)
    /\ [][IsRiskCascade
            => /\ risk'.cascade_multiplier
                    = IF risk.vectors["Detection"].mitigation_coverage < Fx(40)
                      THEN 150 ELSE Fx(1)
               /\ risk'.vectors["DataExposure"].current_level
                    = IF risk.vectors["AccessControl"].current_level > Fx(60)
                      THEN Min2((risk.vectors["DataExposure"].current_level * 120)
                                   \div 100, Fx(100))
                      ELSE risk.vectors["DataExposure"].current_level
               /\ risk'.vectors["SupplyChain"].current_level
                    = IF risk.vectors["VendorRisk"].current_level > Fx(50)
                      THEN Min2((risk.vectors["SupplyChain"].current_level * 115)
                                   \div 100, Fx(100))
                      ELSE risk.vectors["SupplyChain"].current_level
               /\ risk'.total_exposure = ExposureOf(risk', risk'.cascade_multiplier)
               /\ risk'.total_exposure >= 0
               /\ ExposureOf(risk', 150) >= ExposureOf(risk', Fx(1))]_vars

\* The vendor amplification raised SupplyChain from 55 to 63.25 in a call
\* that found Detection without coverage: the multiplier is 1.5 and the
\* exposure counts SupplyChain at 63.25.
C31_Witness ==
    /\ last.op = "risk_calculate_cascade_effects"
    /\ risk.cascade_multiplier = 150
    /\ risk.vectors["SupplyChain"].current_level = 6325
    /\ risk.vectors["Detection"].mitigation_coverage = 0
    /\ risk.total_exposure > 0
    /\ risk.total_exposure = ExposureOf(risk, 150)

-----------------------------------------------------------------------------
(* The order of the steps inside advance_turn: the turns advance from      *)
(* GameState::new past the first review that follows the end of the game,  *)
(* and one decision sets risk values the decay, the cascade, the           *)
(* materialization and the ending react to, or records an impact that      *)
(* touches every ledger and creates a narrative inconsistency.             *)

order_decision ==
    [id |-> "order",
     choices |-> <<
       Plain("thin_detection", risk_impact("thin_detection",
           [v \in {"Detection", "CloudMisconfiguration"} |->
               RiskChange(Fx(50), Fx(41), 0)])),
       Plain("open_bucket", risk_impact("open_bucket",
           [v \in {"DataExposure"} |-> RiskChange(Fx(65), Fx(10), 0)])),
       Plain("overpromise",
             [DecisionImpact_new("overpromise") EXCEPT
                 !.business_delta = [BusinessDelta_zero EXCEPT
                                         !.confidence_change = Fx(10)],
                 !.budget_cost = 10,
                 !.political_capital_gain = Fx(15),
                 !.team_capacity_required = Fx(5),
                 !.reputation_impact = [ReputationDelta_zero EXCEPT
                                            !.team_delta = -Fx(15)],
                 !.compliance_impact = [framework_progress |->
                                            [f \in {"SOC2"} |-> Fx(10)]],
                 !.narrative_impact = Some(NarrativeImpact(Fx(10), TRUE, None, None,
                                                           "overpromised"))]) >>]

OrderApplyChoice ==
    /\ ops < MaxOrderOps
    /\ \E choice_id \in {"thin_detection", "open_bucket", "overpromise"} :
          LET r == apply_choice(order_decision, choice_id, GS)
          IN /\ SetGS(r.state)
             /\ last' = [op |-> "apply_choice",
                         args |-> <<order_decision.id, choice_id>>,
                         result |-> r.result, step |-> r.step, value |-> r.value]
    /\ ops' = ops + 1

OrderAdvanceTurn ==
    /\ turn < MaxOrderTurn
    /\ \E leaving \in AttritionOutcomes(team) :
       \E rolled \in (IF (turn + 1) % 4 = 0 THEN ThreatRolls ELSE {threat_level}) :
          /\ Departures + Cardinality(leaving) <= MaxDepartures
          /\ SetGS(advance_turn(GS, leaving, rolled))
          /\ last' = Called("advance_turn", <<>>, None)
    /\ ops' = ops

NextOrder == OrderApplyChoice \/ OrderAdvanceTurn

SpecOrder == Init /\ [][NextOrder]_vars

\* C32: advance_turn derives every value from the mutations that precede it
\* in the same turn.  The cascade_multiplier it leaves is 1.5 exactly when
\* the Detection coverage after this turn's decay (x0.95) is below 40, and
\* total_exposure is the exposure of the levels and coverages it leaves
\* (after decay and cascade).  Whenever it leaves phase = Ended(e), e is
\* calculate_ending() of the state advance_turn returns: after the decay,
\* the cascade, the debt growth, the attrition, the materialization and, on
\* a multiple of 4, the quarterly review of that turn.
C32_StepOrder ==
    [][(ops' = ops /\ last'.op = "advance_turn")
         => /\ risk'.vectors["Detection"].mitigation_coverage
                 = (risk.vectors["Detection"].mitigation_coverage * 95) \div 100
            /\ risk'.cascade_multiplier
                 = IF (risk.vectors["Detection"].mitigation_coverage * 95) \div 100
                        < Fx(40)
                   THEN 150 ELSE Fx(1)
            /\ risk'.total_exposure = ExposureOf(risk', risk'.cascade_multiplier)
            /\ technical_debt'.total_debt_points
                 = technical_debt.total_debt_points + technical_debt.debt_velocity
            /\ turn' >= 17 => phase' = <<"Ended", calculate_ending(GS')>>
            /\ phase'[1] = "Ended" => phase'[2] = calculate_ending(GS')]_vars

\* The turn that ends the game is also the turn whose materialization
\* creates the critical "s3_breach": the ending counts it.
C32_Witness ==
    /\ turn = 17
    /\ last.op = "advance_turn"
    /\ \E i \in 1..Len(active_incidents) :
          /\ active_incidents[i].id = "s3_breach"
          /\ active_incidents[i].turn_detected = 17
    /\ phase = <<"Ended", "PostBreachCleanup">>
    /\ calculate_ending([GS EXCEPT !.active_incidents = <<>>]) # "PostBreachCleanup"

-----------------------------------------------------------------------------
(* The budget ledger: apply_choice, apply_decision_impact and              *)
(* resolve_incident spend from the four category budgets of Budget::new    *)
(* until the categories and the available total run out.                   *)

spend_impact(id, amount, category) ==
    [DecisionImpact_new(id) EXCEPT !.budget_cost = amount,
                                   !.budget_category = category]

budget_decision ==
    [id |-> "budget",
     choices |-> <<
        Plain("hire", spend_impact("hire", 120, "Headcount")),
        Plain("tools", spend_impact("tools", 50, "Tooling")),
        Plain("project", spend_impact("project", 10, "Project")),
        Plain("reserve", spend_impact("reserve", 20, "Emergency")) >>]

BudgetChoiceIds == {"hire", "tools", "project", "reserve"}

BudgetApplyChoice ==
    /\ ops < MaxBudgetOps
    /\ \E choice_id \in BudgetChoiceIds :
          LET r == apply_choice(budget_decision, choice_id, GS)
          IN /\ SetGS(r.state)
             /\ last' = [op |-> "apply_choice",
                         args |-> <<choice_id>>,
                         result |-> r.result, step |-> r.step, value |-> r.value]
    /\ ops' = ops + 1

BudgetApplyDecisionImpact ==
    /\ ops < MaxBudgetOps
    /\ \E choice_id \in BudgetChoiceIds :
          LET impact == find_choice(budget_decision, choice_id)[1].impact_data[1]
          IN /\ SetGS(apply_decision_impact(GS, impact))
             /\ last' = Called("apply_decision_impact", <<choice_id>>, None)
    /\ ops' = ops + 1

BudgetTriggerIncident ==
    /\ ops < MaxBudgetOps
    /\ \E severity \in {"High", "Critical"} :
          LET incident == ActiveIncident("inc_a", severity, turn, Some(turn + 2),
                                         "Detected", FALSE)
          IN /\ SetGS(trigger_incident(GS, incident))
             /\ last' = Called("trigger_incident", <<incident>>, None)
    /\ ops' = ops + 1

BudgetResolve ==
    /\ ops < MaxBudgetOps
    /\ LET r == resolve_incident(GS, "inc_a", <<"lesson">>)
       IN /\ SetGS(r.state)
          /\ last' = [op |-> "resolve_incident", args |-> <<"inc_a">>,
                      result |-> r.result, step |-> "done", value |-> None]
    /\ ops' = ops + 1

NextBudget ==
    \/ BudgetApplyChoice
    \/ BudgetApplyDecisionImpact
    \/ BudgetTriggerIncident
    \/ BudgetResolve

SpecBudget == Init /\ [][NextBudget]_vars

\* The amount and the category the step hands to Budget::spend; <<>> if the
\* step does not call it.
SpendRequested ==
    IF last'.op \in {"apply_choice", "apply_decision_impact"}
    THEN LET impact == find_choice(budget_decision, last'.args[1])[1].impact_data[1]
         IN <<impact.budget_cost, impact.budget_category>>
    ELSE IF last'.op = "resolve_incident" /\ last'.result = "Ok"
    THEN LET k == FirstWithId(active_incidents, "inc_a")
             severity == active_incidents[k].severity
         IN << CASE severity = "Critical" -> 50 [] severity = "High" -> 20
                 [] severity = "Medium" -> 5 [] severity = "Low" -> 1,
               "Emergency" >>
    ELSE <<>>

\* C33: in every state reachable by apply_choice, apply_decision_impact and
\* resolve_incident, spent + headcount_budget + tooling_budget +
\* project_budget + emergency_reserve is the initial 2.5, each of the five
\* is non-negative and available() is non-negative; a Budget::spend that
\* returns false (the available total or the category is below the amount)
\* changes no field of the budget, and one that returns true moves the
\* amount from its category to spent.
C33_BudgetConserved ==
    /\ [](/\ budget.spent + budget.headcount_budget + budget.tooling_budget
               + budget.project_budget + budget.emergency_reserve = 250
          /\ budget.spent >= 0
          /\ budget.headcount_budget >= 0
          /\ budget.tooling_budget >= 0
          /\ budget.project_budget >= 0
          /\ budget.emergency_reserve >= 0
          /\ budget.total_annual - budget.spent - budget.committed >= 0)
    /\ [][ops' = ops + 1
            => IF SpendRequested = <<>>
               THEN budget' = budget
               ELSE LET amount == SpendRequested[1]
                        category == SpendRequested[2]
                        fits == /\ budget.total_annual - budget.spent
                                      - budget.committed >= amount
                                /\ Budget_category_budget(budget, category) >= amount
                    IN IF fits
                       THEN /\ budget'.spent = budget.spent + amount
                            /\ Budget_category_budget(budget', category)
                                 = Budget_category_budget(budget, category) - amount
                            /\ \A c \in BudgetCategory \ {category} :
                                  Budget_category_budget(budget', c)
                                    = Budget_category_budget(budget, c)
                            /\ budget'.committed = budget.committed
                            /\ budget'.total_annual = budget.total_annual
                       ELSE /\ budget' = budget
                            /\ last'.op = "apply_choice"
                                 => last'.result = "InsufficientBudget"]_vars

\* A spend refused by the available total alone: 1.7 of the 2.5 is spent
\* (0.8 is committed), the project budget still holds 0.4, and the choice
\* asking 0.1 of it failed.
C33_Witness ==
    /\ last.op = "apply_choice"
    /\ last.args = <<"project">>
    /\ last.result = "InsufficientBudget"
    /\ budget.spent = 170
    /\ budget.project_budget = 40
    /\ budget.total_annual - budget.spent - budget.committed = 0

-----------------------------------------------------------------------------
(* Claim about the team capacity ledger, checked under SpecGame.           *)

\* C34: under any interleaving of apply_choice, trigger_incident,
\* resolve_incident and advance_turn, with any outcome of the attrition
\* rolls (each departure lowers total_capacity by 8),
\* 0 <= committed_capacity <= total_capacity: available_capacity() is never
\* negative.
C34_CapacityNotOvercommitted ==
    /\ 0 <= team.committed_capacity
    /\ team.committed_capacity <= team.total_capacity
    /\ SecurityTeam_available_capacity(team) >= 0

-----------------------------------------------------------------------------
(* The game loop of main.rs on the scripted decisions: each turn runs      *)
(* materialize_risks, asks DecisionFactory::generate_decision for the      *)
(* decision of the turn, applies one of its choices and advances the turn. *)
(* main.rs leaves the loop when apply_choice returns an error; the model   *)
(* also follows a caller that reports the error and goes on to the next    *)
(* turn.                                                                   *)

mfa_priority_impact ==
    [DecisionImpact_new("mfa_priority") EXCEPT
        !.risk_delta = [changes |->
            [v \in {"AccessControl"} |-> RiskChange(-Fx(20), Fx(30), -Fx(5))]],
        !.budget_cost = 15,
        !.budget_category = "Project"]

patch_priority_impact ==
    [DecisionImpact_new("patch_priority") EXCEPT
        !.risk_delta = [changes |->
            [v \in {"DataExposure"} |-> RiskChange(-Fx(15), Fx(25), -Fx(3))]],
        !.budget_cost = 10]

soc2_docs_impact ==
    [DecisionImpact_new("soc2_docs") EXCEPT
        !.business_delta = [BusinessDelta_zero EXCEPT !.compliance_change = Fx(30)],
        !.budget_cost = 5]

turn_2_triage_decision ==
    [id |-> "turn_2_triage",
     choices |-> << Choice("mfa_priority", Some(mfa_priority_impact),
                           ChoicePrerequisites(15, 0, Fx(10))),
                    Choice("patch_priority", Some(patch_priority_impact),
                           ChoicePrerequisites(10, 0, Fx(12))),
                    Choice("soc2_documentation", Some(soc2_docs_impact),
                           ChoicePrerequisites(5, 0, Fx(8))) >>]

security_theater_impact ==
    [DecisionImpact_new("security_theater") EXCEPT
        !.budget_cost = 8,
        !.political_capital_gain = Fx(10),
        !.reputation_impact = [ReputationDelta_zero EXCEPT !.team_delta = -Fx(10)]]

build_foundation_impact ==
    [DecisionImpact_new("build_foundation") EXCEPT
        !.risk_delta = [changes |->
            [v \in {"Detection"} |-> RiskChange(-Fx(20), Fx(40), -Fx(5))]],
        !.budget_cost = 25,
        !.reputation_impact = [ReputationDelta_zero EXCEPT !.team_delta = Fx(15)]]

turn_3_quick_win_or_foundation ==
    [id |-> "turn_3_foundation",
     choices |-> << Choice("security_theater", Some(security_theater_impact),
                           ChoicePrerequisites(8, Fx(10), 0)),
                    Choice("build_foundation", Some(build_foundation_impact),
                           ChoicePrerequisites(25, 0, Fx(15))) >>]

\* generate_decision on the turns the loop reaches here (1 to MaxLoopTurn);
\* turn 4 falls to generate_dynamic_decision, which returns None.
generate_decision(s) ==
    CASE s.turn = 1 -> Some(turn_1_inheritance_decision)
      [] s.turn = 2 -> Some(turn_2_triage_decision)
      [] s.turn = 3 -> Some(turn_3_quick_win_or_foundation)
      [] s.turn = 4 -> None

LoopMaterializeRisks ==
    /\ turn <= MaxLoopTurn
    /\ last.op \in {"new", "advance_turn"}
    /\ phase[1] # "Ended"
    /\ LET r == materialize_risks(GS)
       IN /\ SetGS(r.state)
          /\ last' = Called("materialize_risks", <<>>, Some(r.materialized))
    /\ ops' = ops

LoopApplyChoice ==
    /\ last.op = "materialize_risks"
    /\ generate_decision(GS) # None
    /\ LET d == generate_decision(GS)[1]
       IN \E i \in 1..Len(d.choices) :
             LET r == apply_choice(d, d.choices[i].id, GS)
             IN /\ SetGS(r.state)
                /\ last' = [op |-> "apply_choice",
                            args |-> <<d.id, d.choices[i].id>>,
                            result |-> r.result, step |-> r.step, value |-> r.value]
    /\ ops' = ops + 1

LoopAdvanceTurn ==
    /\ turn <= MaxLoopTurn
    /\ \/ last.op = "apply_choice"
       \/ last.op = "materialize_risks" /\ generate_decision(GS) = None
    /\ \E leaving \in AttritionOutcomes(team) :
       \E rolled \in (IF (turn + 1) % 4 = 0 THEN ThreatRolls ELSE {threat_level}) :
          /\ SetGS(advance_turn(GS, leaving, rolled))
          /\ last' = Called("advance_turn", <<>>, None)
    /\ ops' = ops

NextLoop == LoopMaterializeRisks \/ LoopApplyChoice \/ LoopAdvanceTurn

SpecLoop == Init /\ [][NextLoop]_vars

\* The choices of the decision d that apply_choice accepts in the state s.
AcceptedChoices(d, s) ==
    {i \in 1..Len(d.choices) : apply_choice(d, d.choices[i].id, s).result = "Ok"}

\* C35: in every state of the game loop in which generate_decision returns
\* a decision, apply_choice returns Ok for at least one of its choices; in
\* particular for the turn-2 triage decision, whose choices require a team
\* capacity of 10, 12 and 8.
C35_NoDeadEnd ==
    (last.op = "materialize_risks" /\ generate_decision(GS) # None)
        => AcceptedChoices(generate_decision(GS)[1], GS) # {}

-----------------------------------------------------------------------------
(* Claim about the two impact appliers, Decision::apply_choice and         *)
(* GameState::apply_decision_impact, checked under SpecOrder.              *)

\* C36: for every state and every impact for which apply_choice succeeds,
\* apply_decision_impact applied to the same state with the same impact
\* leaves the same risk vectors, business metrics, budget, political
\* capital, committed capacity, reputation, compliance percentages and
\* narrative score; for an impact with creates_inconsistency = true the
\* integrity penalty is subtracted the same number of times by both.
C36_AppliersAgree ==
    [][(ops' = ops + 1 /\ last'.op = "apply_choice" /\ last'.result = "Ok")
         => LET other == apply_decision_impact(GS, last'.value[1])
            IN /\ risk'.vectors = other.risk.vectors
               /\ business' = other.business
               /\ budget' = other.budget
               /\ political_capital' = other.political_capital
               /\ team'.committed_capacity = other.team.committed_capacity
               /\ reputation' = other.reputation
               /\ \A f \in DOMAIN compliance' :
                     compliance'[f].compliance_percent
                       = other.compliance[f].compliance_percent
               /\ narrative'.score = other.narrative.score]_vars

-----------------------------------------------------------------------------
(* Incidents that come back: a choice of the first turn raises risk        *)
(* levels, the turns advance past the thresholds of the materialization    *)
(* rules, and the incidents they create are resolved while the levels      *)
(* stay where they are; materialize_risks is called after a resolution.    *)

ReturnRaiseRisk ==
    /\ last.op = "new"
    /\ \E choice_id \in {"data_up", "all_up"} :
          LET r == apply_choice(exposure_decision, choice_id, GS)
          IN /\ SetGS(r.state)
             /\ last' = [op |-> "apply_choice",
                         args |-> <<exposure_decision.id, choice_id>>,
                         result |-> r.result, step |-> r.step, value |-> r.value]
    /\ ops' = ops

ReturnAdvanceTurn ==
    /\ last.op # "new"
    /\ turn < MaxReturnTurn
    /\ \E leaving \in AttritionOutcomes(team) :
       \E rolled \in (IF (turn + 1) % 4 = 0 THEN ThreatRolls ELSE {threat_level}) :
          /\ Departures + Cardinality(leaving) <= MaxDepartures
          /\ SetGS(advance_turn(GS, leaving, rolled))
          /\ last' = Called("advance_turn", <<>>, None)
    /\ ops' = ops

ReturnMaterializeRisks ==
    /\ last.op = "resolve_incident"
    /\ LET r == materialize_risks(GS)
       IN /\ SetGS(r.state)
          /\ last' = Called("materialize_risks", <<>>, Some(r.materialized))
    /\ ops' = ops

ReturnResolve ==
    /\ ops < MaxReturnOps
    /\ \E i \in 1..Len(active_incidents) :
          LET r == resolve_incident(GS, active_incidents[i].id, <<"lesson">>)
          IN /\ SetGS(r.state)
             /\ last' = [op |-> "resolve_incident",
                         args |-> <<active_incidents[i].id>>,
                         result |-> r.result, step |-> "done", value |-> None]
    /\ ops' = ops + 1

NextReturn ==
    \/ ReturnRaiseRisk
    \/ ReturnAdvanceTurn
    \/ ReturnMaterializeRisks
    \/ ReturnResolve

SpecReturn == Init /\ [][NextReturn]_vars

\* The number of resolutions recorded for the incident id.
ResolvedCount(id) ==
    Cardinality({i \in 1..Len(resolved_incidents) :
                    resolved_incidents[i].original_incident = id})

\* A step of advance_turn or materialize_risks.
IsMaterialization ==
    \/ last'.op = "advance_turn" /\ turn' = turn + 1
    \/ last'.op = "materialize_risks" /\ turn' = turn

\* C37: the materialization rules look only at the active incidents.  After
\* a resolve_incident of "s3_breach", "credential_stuffing" or
\* "vendor_breach", the next advance_turn or materialize_risks at which the
\* rule's condition holds creates a new active incident with the same id,
\* detected on that turn; a resolved debt incident is followed by a new one
\* on the next turn that is a multiple of 3 with a debt above 200; each
\* resolution appends its own record, so two resolutions of "s3_breach"
\* leave two records with the id "resolved_s3_breach".
C37_ResolvedComesBack ==
    /\ [][IsMaterialization
            => /\ (/\ ResolvedCount("s3_breach") > 0
                   /\ CountId(active_incidents, "s3_breach") = 0
                   /\ risk'.vectors["DataExposure"].current_level > Fx(60)
                   /\ turn' > 5)
                  => \E i \in 1..Len(active_incidents') :
                        /\ active_incidents'[i].id = "s3_breach"
                        /\ active_incidents'[i].turn_detected = turn'
               /\ (/\ ResolvedCount("credential_stuffing") > 0
                   /\ CountId(active_incidents, "credential_stuffing") = 0
                   /\ risk'.vectors["AccessControl"].current_level > Fx(50)
                   /\ risk'.vectors["AccessControl"].mitigation_coverage < Fx(30)
                   /\ turn' > 6)
                  => \E i \in 1..Len(active_incidents') :
                        /\ active_incidents'[i].id = "credential_stuffing"
                        /\ active_incidents'[i].turn_detected = turn'
               /\ (/\ ResolvedCount("vendor_breach") > 0
                   /\ CountId(active_incidents, "vendor_breach") = 0
                   /\ risk'.vectors["VendorRisk"].current_level > Fx(40)
                   /\ turn' > 7)
                  => \E i \in 1..Len(active_incidents') :
                        /\ active_incidents'[i].id = "vendor_breach"
                        /\ active_incidents'[i].turn_detected = turn'
               /\ (/\ \E t \in 1..MaxReturnTurn : ResolvedCount(debt_incident_id(t)) > 0
                   /\ \A t \in 1..MaxReturnTurn :
                         CountId(active_incidents, debt_incident_id(t)) = 0
                   /\ technical_debt'.total_debt_points > Fx(200)
                   /\ turn' % 3 = 0)
                  => CountId(active_incidents', debt_incident_id(turn')) = 1]_vars
    /\ [][(last'.op = "resolve_incident" /\ last'.result = "Ok" /\ ops' = ops + 1)
            => /\ Len(resolved_incidents') = Len(resolved_incidents) + 1
               /\ resolved_incidents'[Len(resolved_incidents')].id
                    = <<"resolved", last'.args[1]>>
               /\ resolved_incidents'[Len(resolved_incidents')].original_incident
                    = last'.args[1]
               /\ SubSeq(resolved_incidents', 1, Len(resolved_incidents))
                    = resolved_incidents]_vars

\* "s3_breach" was created on turn 6, resolved, created again by the
\* materialize_risks that followed, and resolved a second time: two records
\* carry the id "resolved_s3_breach".
C37_Witness ==
    /\ last.op = "resolve_incident"
    /\ last.args = <<"s3_breach">>
    /\ Cardinality({i \in 1..Len(resolved_incidents) :
                       resolved_incidents[i].id = <<"resolved", "s3_breach">>}) = 2
    /\ CountId(active_incidents, "s3_breach") = 0
    /\ risk.vectors["DataExposure"].current_level > Fx(60)

\* C37 as stated: the debt incident too comes back under the id it was
\* resolved with.
C37_SameFixedId ==
    [][IsMaterialization
         => \A t \in 1..MaxReturnTurn :
               (/\ ResolvedCount(debt_incident_id(t)) > 0
                /\ \A u \in 1..MaxReturnTurn :
                      CountId(active_incidents, debt_incident_id(u)) = 0
                /\ technical_debt'.total_debt_points > Fx(200)
                /\ turn' % 3 = 0)
               => CountId(active_incidents', debt_incident_id(t)) = 1]_vars

-----------------------------------------------------------------------------
(* Claim about the growth of the technical debt, checked under SpecGame.   *)

\* The active incidents whose id starts with "debt_incident".
DebtIncidents(incidents) ==
    {i \in 1..Len(incidents) :
        incidents[i].id \in {debt_incident_id(t) : t \in 0..(MaxGameTurn + 1)}}

\* C38: the technical debt grows by debt_velocity (5) on every advance_turn
\* and nothing else writes it: from the fresh state (180)
\* total_debt_points = 180 + 5 x (turn - 1).  The advance_turn that reaches
\* turn 6 creates an active Medium incident with id "debt_incident_6",
\* whatever was chosen before; while an incident whose id starts with
\* "debt_incident" is active, advance_turn and materialize_risks create no
\* further debt incident.
C38_DebtGrowth ==
    /\ [](/\ technical_debt.total_debt_points = Fx(180) + Fx(5) * (turn - 1)
          /\ technical_debt.debt_velocity = Fx(5))
    /\ [][(IsGameAdvance /\ last'.op = "advance_turn" /\ turn' = 6)
            => \E i \in 1..Len(active_incidents') :
                  /\ active_incidents'[i].id = "debt_incident_6"
                  /\ active_incidents'[i].severity = "Medium"
                  /\ active_incidents'[i].turn_detected = 6
                  /\ active_incidents'[i].root_cause_identified]_vars
    /\ [][(last'.op \in {"advance_turn", "materialize_risks"}
             /\ DebtIncidents(active_incidents) # {})
            => Cardinality(DebtIncidents(active_incidents'))
                 = Cardinality(DebtIncidents(active_incidents))]_vars

\* Turn 6 reached after a choice was applied: the debt is 205 and
\* "debt_incident_6" is active.
C38_Witness ==
    /\ turn = 6
    /\ ops = 1
    /\ last.op = "advance_turn"
    /\ \E i \in 1..Len(events) : events[i].event_type = "DecisionMade"
    /\ technical_debt.total_debt_points = Fx(205)
    /\ \E i \in 1..Len(active_incidents) : active_incidents[i].id = "debt_incident_6"

-----------------------------------------------------------------------------
(* Objectives over the full game: no operation writes an objective's       *)
(* progress, so every review finds the same single critical miss.          *)

IsGameReview == IsGameAdvance /\ last'.op = "advance_turn" /\ turn' % 4 = 0

\* C39: from a fresh state no operation changes an objective's progress, so
\* every objective stays at progress 0 and unstamped, the only Critical one
\* is the initial "soc2_cert" (those added later are High or Medium), and
\* every review counts 0 objectives met and 1 critical miss: it lowers the
\* political capital total by 15, floored at 0, and appends exactly one
\* objective, one QuarterEnd event and one BoardReview event, so that the
\* list has 2 + (quarter - 1) objectives.  No other step touches the list.
C39_ReviewsMissOnce ==
    /\ [](/\ \A i \in 1..Len(quarterly_objectives) :
                /\ quarterly_objectives[i].progress = 0
                /\ quarterly_objectives[i].completion_turn = None
                /\ i >= 2 => quarterly_objectives[i].priority \in {"High", "Medium"}
          /\ quarterly_objectives[1].id = "soc2_cert"
          /\ ObjectivesMet(quarterly_objectives) = {}
          /\ CriticalMissed(quarterly_objectives) = {1}
          /\ Len(quarterly_objectives) = 2 + (quarter - 1)
          /\ CountEvents(events, "QuarterEnd") = quarter - 1
          /\ CountEvents(events, "BoardReview") = quarter - 1)
    /\ [][IF IsGameReview
          THEN /\ political_capital'.total = Max2(political_capital.total - Fx(15), 0)
               /\ quarter' = quarter + 1
               /\ SubSeq(quarterly_objectives', 1, Len(quarterly_objectives))
                     = quarterly_objectives
               /\ Len(quarterly_objectives') = Len(quarterly_objectives) + 1
               /\ CountEvents(events', "QuarterEnd")
                     = CountEvents(events, "QuarterEnd") + 1
               /\ CountEvents(events', "BoardReview")
                     = CountEvents(events, "BoardReview") + 1
          ELSE /\ quarterly_objectives' = quarterly_objectives
               /\ quarter' = quarter]_vars

\* The fourth review, after operations of every kind: six objectives, the
\* three added ones High, High and Medium, and a total the floor stopped.
C39_Witness ==
    /\ turn = 16
    /\ quarter = 5
    /\ last.op = "advance_turn"
    /\ ops > 0
    /\ Len(quarterly_objectives) = 6
    /\ quarterly_objectives[3].priority = "High"
    /\ quarterly_objectives[5].priority = "Medium"
    /\ political_capital.total = 0

-----------------------------------------------------------------------------
(* Turn arithmetic: the u32 subtractions of the turn counter, with          *)
(* apply_decision_impact handed delays of every size on every turn.  A      *)
(* u32 subtraction whose right operand is the larger one panics in a build  *)
(* with overflow checks and wraps in one without; in the wrapped outcome a  *)
(* negative should_have_escalated_turn v stands for the u32 value 2^32 + v  *)
(* (delay_escalation's own subtraction then wraps back to delay_turns).     *)
(* After a panic the process is gone and no operation follows.              *)

arith_impact(delay_turns) ==
    [DecisionImpact_new("delay") EXCEPT
        !.narrative_impact = Some(NarrativeImpact(0, FALSE, None,
                                                  Some(<<"inc_a", delay_turns>>),
                                                  "contain first"))]

Panicked == last.result = "Panic"

ArithAdvanceTurn ==
    /\ ~Panicked
    /\ turn < MaxArithTurn
    /\ \E leaving \in AttritionOutcomes(team) :
       \E rolled \in (IF (turn + 1) % 4 = 0 THEN ThreatRolls ELSE {threat_level}) :
          /\ Departures + Cardinality(leaving) <= MaxDepartures
          /\ SetGS(advance_turn(GS, leaving, rolled))
          /\ last' = Called("advance_turn", <<>>, None)
    /\ ops' = ops

ArithTriggerIncident ==
    /\ ~Panicked
    /\ ops < MaxArithOps
    /\ SetGS(trigger_incident(GS, GameIncident(turn)))
    /\ last' = Called("trigger_incident", <<GameIncident(turn)>>, None)
    /\ ops' = ops + 1

ArithEscalate ==
    /\ ~Panicked
    /\ ops < MaxArithOps
    /\ \E i \in 1..Len(active_incidents) :
          LET r == escalate_incident_to_board(GS, active_incidents[i].id)
          IN /\ SetGS(r.state)
             /\ last' = [op |-> "escalate_incident_to_board",
                         args |-> <<active_incidents[i].id>>,
                         result |-> r.result, step |-> "done", value |-> None]
    /\ ops' = ops + 1

ArithResolve ==
    /\ ~Panicked
    /\ ops < MaxArithOps
    /\ \E i \in 1..Len(active_incidents) :
          LET r == resolve_incident(GS, active_incidents[i].id, <<"lesson">>)
          IN /\ SetGS(r.state)
             /\ last' = [op |-> "resolve_incident",
                         args |-> <<active_incidents[i].id>>,
                         result |-> r.result, step |-> "done", value |-> None]
    /\ ops' = ops + 1

ArithApplyDecisionImpact ==
    /\ ~Panicked
    /\ ops < MaxArithOps
    /\ \E delay_turns \in 0..MaxDelayTurns :
          \/ /\ SetGS(apply_decision_impact(GS, arith_impact(delay_turns)))
             /\ last' = Called("apply_decision_impact", <<"delay", delay_turns>>, None)
          \/ /\ delay_turns > turn
             /\ UNCHANGED gameVars
             /\ last' = [op |-> "apply_decision_impact",
                         args |-> <<"delay", delay_turns>>,
                         result |-> "Panic", step |-> "turn - delay_turns",
                         value |-> None]
    /\ ops' = ops + 1

NextArith ==
    \/ ArithAdvanceTurn
    \/ ArithTriggerIncident
    \/ ArithEscalate
    \/ ArithResolve
    \/ ArithApplyDecisionImpact

SpecArith == Init /\ [][NextArith]_vars

\* C40: the u32 turn subtractions never underflow: no operation panics,
\* every active incident was detected no later than the current turn (turn -
\* turn_detected in escalate_incident_to_board and resolve_incident), every
\* resolved incident took a non-negative time, and in every delayed
\* escalation recorded 0 <= should_have <= actually (turn - delay_turns in
\* apply_decision_impact, actually - should_have in delay_escalation).
C40_NoUnderflow ==
    /\ ~Panicked
    /\ \A i \in 1..Len(active_incidents) : active_incidents[i].turn_detected <= turn
    /\ \A i \in 1..Len(resolved_incidents) : resolved_incidents[i].time_to_resolve >= 0
    /\ \A i \in 1..Len(narrative.delayed_escalations) :
          LET e == narrative.delayed_escalations[i]
          IN /\ 0 <= e.should_have_escalated_turn
             /\ e.should_have_escalated_turn <= e.actually_escalated_turn

====
